---------------------------- MODULE Spec2Model ----------------------------
(***************************************************************************)
(* A model of tego, a loader for Tiled (TMX) maps:                         *)
(*   - GID bit packing and Map::tile_image          (src/src/lib.rs)       *)
(*   - LayerIterator and a stack-keeping consumer   (src/src/lib.rs,       *)
(*                                                   examples)             *)
(*   - ResourceManager's memoised loading           (resource_manager.rs)  *)
(*   - tile data decoding, TileIterator, Map loading (src/src/lib.rs)      *)
(*   - PropertyContainer                             (src/src/property.rs) *)
(*                                                                         *)
(* A u32 is a function from bit position (0 = least significant) to 0/1,   *)
(* so that the flip flags 0x80000000, 0x40000000 and 0x20000000 keep their *)
(* place in a 32 bit word.                                                 *)
(***************************************************************************)
EXTENDS Integers, Sequences, FiniteSets, TLC

VARIABLES
    tilesets,     \* Map.tilesets: Vec<TileSet>, in document order
    query,        \* the GID last handed to tile_image / the accessors
    result,       \* what Map::tile_image returned for query
    inspected     \* what to_id and the three flip accessors returned for query

gidVars == <<tilesets, query, result, inspected>>

VARIABLES
    layers,       \* Map.layers: the layer tree
    iter_stack,   \* LayerIterator.iter_stack: one slice iterator per open depth
    item,         \* what the last call of LayerIterator::next returned
    yielded,      \* the items this traversal has yielded so far, in order
    pc,           \* where the consuming for-loop stands
    stack,        \* the consumer's stack: one entry per group it has pushed
    runs,         \* how many times iter_layers has been called
    prev_run      \* the items of the last traversal that ran to its end

layerVars == <<layers, iter_stack, item, yielded, pc, stack, runs, prev_run>>

VARIABLES
    base_path,    \* ResourceManager.base_path
    image_cache,  \* ResourceManager.image_cache: resolved path -> Rc handle
    rc_count,     \* how many Rc allocations the manager has made so far
    loader_log,   \* every call of ImageLoader::load: its path and whether it succeeded
    request_log   \* every call of load_image: its resolved path and what it returned

VARIABLES
    template_cache, \* ResourceManager.template_cache: resolved path -> Object
    provider_log,   \* every call of Provider::read for a template, and what came of it
    template_log,   \* every call of load_object_template: its path and what it returned
    handed          \* the Objects load_object_template returned, as their callers hold them

tmplVars == <<template_cache, provider_log, template_log, handed>>

rmVars == <<base_path, image_cache, rc_count, loader_log, request_log, tmplVars>>

VARIABLES
    map_node,     \* the attributes of the <map> element that the tile iterator depends on
    renderorder,  \* Map.renderorder as parsed from map_node
    layer_node,   \* the <layer> element handed to TileLayer::from_xml
    decoded,      \* what TileLayer::parse_data returned for its <data> child
    tile_layer,   \* what TileLayer::from_xml returned
    tile_pos,     \* TileIterator.pos
    tile_item,    \* what the last call of TileIterator::next returned
    tile_items    \* the items the iterator has yielded so far, in order

tileVars == <<map_node, renderorder, layer_node, decoded, tile_layer,
              tile_pos, tile_item, tile_items>>

VARIABLES
    document,     \* the map file handed to Map::from_file: its path, content and loader
    map_result    \* what Map::from_file / Map::from_file_with_loader returned

mapVars == <<document, map_result>>

VARIABLES
    properties,   \* PropertyContainer.properties: name -> Property
    update_log    \* every call of from_xml / update_from_xml: the node, the container
                  \* before the call and what the call returned

propVars == <<properties, update_log>>

VARIABLES
    parse_input,  \* the text or element last handed to a parser of attributes
    parse_output  \* what that parser returned

attrVars == <<parse_input, parse_output>>

\* the state of loading a document
loadVars == <<tileVars, mapVars, propVars, attrVars>>

vars == <<gidVars, layerVars, rmVars, loadVars>>

-----------------------------------------------------------------------------
(* 32 bit words *)

U32_BITS == 32

BitPositions == 0 .. (U32_BITS - 1)

RECURSIVE Pow2Rec(_)
Pow2Rec(n) == IF n = 0 THEN 1 ELSE 2 * Pow2Rec(n - 1)

\* 2^n for the exponents whose power fits (n < 31), tabulated once
Pow2Table == [n \in 0 .. (U32_BITS - 2) |-> Pow2Rec(n)]

Pow2(n) == Pow2Table[n]

\* the word with exactly bit n set (0x80000000 is U32Bit(31))
U32Bit(n) == [i \in BitPositions |-> IF i = n THEN 1 ELSE 0]

BitOr(a, b) == [i \in BitPositions |-> IF a[i] = 1 \/ b[i] = 1 THEN 1 ELSE 0]

BitAnd(a, b) == [i \in BitPositions |-> IF a[i] = 1 /\ b[i] = 1 THEN 1 ELSE 0]

BitNot(a) == [i \in BitPositions |-> 1 - a[i]]

\* numeric value of the bits below position n (used only where it fits)
RECURSIVE LowValue(_, _)
LowValue(a, n) == IF n = 0 THEN 0 ELSE a[n - 1] * Pow2(n - 1) + LowValue(a, n - 1)

\* unsigned comparison a <= b, deciding at the most significant differing bit
RECURSIVE U32LeqFrom(_, _, _)
U32LeqFrom(a, b, n) ==
    IF n < 0 THEN TRUE
    ELSE IF a[n] # b[n] THEN a[n] < b[n]
    ELSE U32LeqFrom(a, b, n - 1)

U32Leq(a, b) == U32LeqFrom(a, b, U32_BITS - 1)


-----------------------------------------------------------------------------
(* GID: the flip flags and the accessors *)

GID_HORIZONTAL_FLIP_FLAG == U32Bit(31)

GID_VERTICAL_FLIP_FLAG == U32Bit(30)

GID_DIAGONAL_FLIP_FLAG == U32Bit(29)

\* a mask that forgets the diagonal flag
GID_FLIP_MASK_WithoutDiagonal ==
    BitOr(GID_HORIZONTAL_FLIP_FLAG, GID_VERTICAL_FLIP_FLAG)

GID_FLIP_MASK ==
    BitOr(BitOr(GID_HORIZONTAL_FLIP_FLAG, GID_VERTICAL_FLIP_FLAG), GID_DIAGONAL_FLIP_FLAG)

\* GID::as_raw: the NonZeroU32 inside
as_raw(g) == g

\* GID::to_id, as a u32 word
to_id(g) == BitAnd(as_raw(g), BitNot(GID_FLIP_MASK))

flip_horizontal(g) == BitAnd(as_raw(g), GID_HORIZONTAL_FLIP_FLAG) = GID_HORIZONTAL_FLIP_FLAG

flip_vertical(g) == BitAnd(as_raw(g), GID_VERTICAL_FLIP_FLAG) = GID_VERTICAL_FLIP_FLAG

flip_diagonal(g) == BitAnd(as_raw(g), GID_DIAGONAL_FLIP_FLAG) = GID_DIAGONAL_FLIP_FLAG

\* derive(PartialOrd, Ord) on GID(NonZeroU32): the raw words compare as numbers
GidLeq(a, b) == U32Leq(as_raw(a), as_raw(b))

\* the numeric value of a masked id; it is below 2^29
IdValue(w) == LowValue(w, U32_BITS - 1)

-----------------------------------------------------------------------------
(* math.rs: ivec2 and Rect *)

ivec2(x, y) == [x |-> x, y |-> y]

Vadd(a, b) == ivec2(a.x + b.x, a.y + b.y)

Vmul(a, b) == ivec2(a.x * b.x, a.y * b.y)

Rect(upper_left, size) == [upper_left |-> upper_left, size |-> size]

\* i32 division and remainder truncate toward zero
DivI32(a, b) == IF a >= 0 THEN a \div b ELSE -((-a) \div b)

RemI32(a, b) == a - b * DivI32(a, b)

-----------------------------------------------------------------------------
(* Map::tile_image *)

None == [kind |-> "None"]

Panic == [kind |-> "Panic"]

Some(image, rect) == [kind |-> "Some", image |-> image, rect |-> rect]

\* self.tilesets.iter().rfind(|t| t.firstgid <= id): the index of the last
\* tileset, in document order, whose raw firstgid is <= the raw id; 0 if none
RfindTileset(ts, id) ==
    LET hits == {i \in 1 .. Len(ts) : GidLeq(ts[i].firstgid, id)}
    IN  IF hits = {} THEN 0 ELSE CHOOSE i \in hits : \A j \in hits : j <= i

\* (id.to_id() - tileset.firstgid.to_id()) as i32.  The u32 subtraction
\* underflows when the minuend is smaller: with overflow checks (debug builds)
\* it panics, without them it wraps to 2^32 - d, which the cast reads as -d.
LocalId(id, firstgid, overflow_checks) ==
    LET a == IdValue(to_id(id))
        b == IdValue(to_id(firstgid))
    IN  IF a >= b THEN [ok |-> TRUE, lid |-> a - b]
        ELSE IF overflow_checks THEN [ok |-> FALSE, lid |-> 0]
        ELSE [ok |-> TRUE, lid |-> a - b]

tile_image(ts, id, overflow_checks) ==
    LET at == RfindTileset(ts, id)
    IN  IF at = 0 THEN None
        ELSE
          LET tileset == ts[at]
              size == ivec2(tileset.tile_size.x, tileset.tile_size.y)
              stride == Vadd(size, ivec2(tileset.spacing, tileset.spacing))
              l == LocalId(id, tileset.firstgid, overflow_checks)
          IN  IF ~l.ok THEN Panic
              ELSE IF tileset.columns = 0 THEN Panic  \* lid % 0
              ELSE
                LET tile_id == ivec2(RemI32(l.lid, tileset.columns),
                                     DivI32(l.lid, tileset.columns))
                    upper_left == Vadd(ivec2(tileset.margin, tileset.margin),
                                       Vmul(tile_id, stride))
                IN  Some(tileset.image, Rect(upper_left, size))

-----------------------------------------------------------------------------
(* The maps and GIDs the model draws from *)

MaxTilesets == 2

\* the word with the three top bits taken from flags (0..7) and the 29 low
\* bits from low
U32FromParts(flags, low) ==
    [i \in BitPositions |->
        IF i >= U32_BITS - 3 THEN (flags \div Pow2(i - (U32_BITS - 3))) % 2
        ELSE (low \div Pow2(i)) % 2]

AllLowBits == Pow2(U32_BITS - 3) - 1

FirstGidChoices == {1, 3, 50}

IdChoices == {0, 1, 2, 3, 4, 49, 50, AllLowBits}

ColumnChoices == {0, 1, 2}

\* tile_size, spacing and margin of a tileset
GeometryChoices ==
    { [tile_size |-> ivec2(2, 3), spacing |-> 0, margin |-> 0],
      [tile_size |-> ivec2(3, 2), spacing |-> 1, margin |-> 2] }

\* a GID is never zero (NonZeroU32)
Gids == {U32FromParts(f, low) : f \in 0 .. 7, low \in IdChoices}
            \ {U32FromParts(0, 0)}

TileSetShapes ==
    [firstgid : {U32FromParts(0, n) : n \in FirstGidChoices},
     columns : ColumnChoices,
     geometry : GeometryChoices]

\* the TileSet at position i of the map; every tileset has an image of its own
TileSet(shape, i) ==
    [firstgid |-> shape.firstgid,
     tile_size |-> shape.geometry.tile_size,
     spacing |-> shape.geometry.spacing,
     margin |-> shape.geometry.margin,
     columns |-> shape.columns,
     image |-> i]

TileSetLists ==
    UNION { { [i \in 1 .. n |-> TileSet(shapes[i], i)] : shapes \in [1 .. n -> TileSetShapes] }
            : n \in 0 .. MaxTilesets }

NotCalled == [kind |-> "NotCalled"]

\* the empty image cache: a function with no path in its domain
EmptyCache == << >>

\* ResourceManager::new: the base path is ".", the cache is empty
ResourceManager_new ==
    /\ base_path = <<".">>
    /\ image_cache = EmptyCache
    /\ rc_count = 0
    /\ loader_log = << >>
    /\ request_log = << >>
    /\ template_cache = EmptyCache
    /\ provider_log = << >>
    /\ template_log = << >>
    /\ handed = << >>

\* a program that parses no layer and iterates over no tiles
TilesIdle ==
    /\ map_node = NotCalled
    /\ renderorder = NotCalled
    /\ layer_node = NotCalled
    /\ decoded = NotCalled
    /\ tile_layer = NotCalled
    /\ tile_pos = NotCalled
    /\ tile_item = NotCalled
    /\ tile_items = << >>

\* a program that loads no map
MapIdle ==
    /\ document = NotCalled
    /\ map_result = NotCalled

\* a program that builds no PropertyContainer
PropsIdle ==
    /\ properties = NotCalled
    /\ update_log = << >>

\* a program that parses no attribute on its own
AttrsIdle ==
    /\ parse_input = NotCalled
    /\ parse_output = NotCalled

\* a program that loads no document
LoadIdle == TilesIdle /\ MapIdle /\ PropsIdle /\ AttrsIdle

\* a program that never looks at the layers
LayersIdle ==
    /\ layers = << >>
    /\ iter_stack = << >>
    /\ item = [kind |-> "NotCalled"]
    /\ yielded = << >>
    /\ pc = "idle"
    /\ stack = << >>
    /\ runs = 0
    /\ prev_run = [kind |-> "NoRun"]


InitGid ==
    /\ tilesets \in TileSetLists
    /\ query = NotCalled
    /\ result = NotCalled
    /\ inspected = NotCalled
    /\ LayersIdle
    /\ ResourceManager_new
    /\ LoadIdle

\* map.tile_image(id), in a build with or without overflow checks
TileImage(id) ==
    /\ query = NotCalled
    /\ \E overflow_checks \in BOOLEAN :
          result' = tile_image(tilesets, id, overflow_checks)
    /\ query' = [kind |-> "GID", raw |-> id]
    /\ inspected' = NotCalled
    /\ UNCHANGED <<tilesets, layerVars, rmVars, loadVars>>

\* the caller reads the masked id and the three flip flags of a GID
InspectGid(id) ==
    /\ query = NotCalled
    /\ inspected' = [to_id |-> to_id(id),
                     flip_horizontal |-> flip_horizontal(id),
                     flip_vertical |-> flip_vertical(id),
                     flip_diagonal |-> flip_diagonal(id)]
    /\ query' = [kind |-> "GID", raw |-> id]
    /\ result' = NotCalled
    /\ UNCHANGED <<tilesets, layerVars, rmVars, loadVars>>

\* the caller is done with what it got and may ask again
Release ==
    /\ query # NotCalled
    /\ query' = NotCalled
    /\ result' = NotCalled
    /\ inspected' = NotCalled
    /\ UNCHANGED <<tilesets, layerVars, rmVars, loadVars>>

\* the GIDs whose accessors are read: every flag combination over these low parts
InspectLowChoices ==
    IdChoices \cup {5, 7, 8, 255, 256, 65535, 65536, Pow2(U32_BITS - 4)}

InspectGids == {U32FromParts(f, low) : f \in 0 .. 7, low \in InspectLowChoices}
                   \ {U32FromParts(0, 0)}

\* a program that only builds GIDs and reads them
InitBits ==
    /\ tilesets = << >>
    /\ query = NotCalled
    /\ result = NotCalled
    /\ inspected = NotCalled
    /\ LayersIdle
    /\ ResourceManager_new
    /\ LoadIdle

NextBits ==
    \/ \E id \in InspectGids : InspectGid(id)
    \/ Release

SpecBits == InitBits /\ [][NextBits]_vars

NextGid ==
    \/ \E id \in Gids : TileImage(id)
    \/ Release

SpecGid == InitGid /\ [][NextGid]_vars

-----------------------------------------------------------------------------
(* GID resolution: what the claims say of tile_image *)

FirstGidValue(t) == IdValue(to_id(t.firstgid))

\* a map as the editor writes it: firstgid strictly ascending in document
\* order, every tileset with at least one column
ValidMap(ts) ==
    /\ \A i, j \in 1 .. Len(ts) : i < j => FirstGidValue(ts[i]) < FirstGidValue(ts[j])
    /\ \A i \in 1 .. Len(ts) : ts[i].columns > 0

\* the tilesets whose firstgid does not exceed the masked id
Candidates(ts, id) ==
    {i \in 1 .. Len(ts) : FirstGidValue(ts[i]) <= IdValue(to_id(id))}

\* the owner of a GID: the candidate with the largest firstgid; 0 if none
OwnerOf(ts, id) ==
    LET c == Candidates(ts, id)
    IN  IF c = {} THEN 0
        ELSE CHOOSE i \in c : \A j \in c : FirstGidValue(ts[j]) <= FirstGidValue(ts[i])

Called == query # NotCalled /\ result # NotCalled

HasFlipBits(id) == flip_horizontal(id) \/ flip_vertical(id) \/ flip_diagonal(id)

\* C1: tile_image selects the tileset with the largest firstgid that does not
\* exceed the masked id of the GID, and a GID that has such a tileset resolves
\* to Some.  Stated for maps as the editor writes them (ValidMap), where the
\* claim's "largest firstgid" and the document order agree.
C1_SelectsOwner ==
    (Called /\ ValidMap(tilesets) /\ OwnerOf(tilesets, query.raw) # 0)
        => /\ result.kind = "Some"
           /\ result.image = tilesets[OwnerOf(tilesets, query.raw)].image

\* C2: tile_image returns None, and neither fails nor crashes, when the masked
\* id is 0 or below every firstgid of the map (no tilesets and a GID of flip
\* bits only included).
C2_NotFoundIsNone ==
    (Called /\ ValidMap(tilesets) /\ Candidates(tilesets, query.raw) = {}) => result = None

\* C3: tile_image gives a GID with flip bits the image and rectangle it gives
\* the same GID with the flip bits cleared.
C3_FlipIndependent ==
    (Called /\ ValidMap(tilesets) /\ IdValue(to_id(query.raw)) # 0)
        => \E overflow_checks \in BOOLEAN :
              result = tile_image(tilesets, to_id(query.raw), overflow_checks)

\* the rectangle of local index lid in tileset t, as the claim gives it
RectOf(t, lid) ==
    [upper_left |->
        [x |-> t.margin + (lid % t.columns) * (t.tile_size.x + t.spacing),
         y |-> t.margin + (lid \div t.columns) * (t.tile_size.y + t.spacing)],
     size |-> t.tile_size]

\* C4: for the tileset ts that owns the GID, tile_image returns the rectangle
\* of size ts.tile_size whose upper-left corner is (margin, margin) +
\* (lid % columns, lid / columns) * (tile_size + spacing), with
\* lid = g.to_id() - ts.firstgid.to_id().
C4_RectOfOwner ==
    (Called /\ ValidMap(tilesets) /\ OwnerOf(tilesets, query.raw) # 0)
        => LET ts == tilesets[OwnerOf(tilesets, query.raw)]
               lid == IdValue(to_id(query.raw)) - FirstGidValue(ts)
           IN  /\ result.kind = "Some"
               /\ result.rect = RectOf(ts, lid)

\* What does hold of the code: a GID without flip bits, on a map as the editor
\* writes it, resolves as C1, C2 and C4 say.
UnflippedResolves ==
    (Called /\ ValidMap(tilesets) /\ ~HasFlipBits(query.raw))
        => LET o == OwnerOf(tilesets, query.raw)
           IN  IF o = 0 THEN result = None
               ELSE result = Some(tilesets[o].image,
                                  RectOf(tilesets[o],
                                         IdValue(to_id(query.raw)) - FirstGidValue(tilesets[o])))

-----------------------------------------------------------------------------
(* GID accessors *)

FlagPositions == {U32_BITS - 1, U32_BITS - 2, U32_BITS - 3}

\* C5: to_id is the raw id with bits 31, 30 and 29 cleared and every other bit
\* kept, and flip_horizontal / flip_vertical / flip_diagonal are true exactly
\* when bit 31 / 30 / 29 of the raw id is set.
C5_MaskAndFlags ==
    inspected # NotCalled =>
        /\ inspected.to_id =
              [i \in BitPositions |-> IF i \in FlagPositions THEN 0 ELSE query.raw[i]]
        /\ inspected.flip_horizontal = (query.raw[31] = 1)
        /\ inspected.flip_vertical = (query.raw[30] = 1)
        /\ inspected.flip_diagonal = (query.raw[29] = 1)

\* a GID with the horizontal and diagonal flags set, the vertical one clear and
\* low bits set has been read
C5_Witness ==
    /\ inspected # NotCalled
    /\ query.raw[31] = 1 /\ query.raw[30] = 0 /\ query.raw[29] = 1
    /\ query.raw[0] = 1 /\ query.raw[28] = 1
    /\ inspected.flip_diagonal /\ ~inspected.flip_vertical

-----------------------------------------------------------------------------
(* The layer tree *)

MaxLayers == 5

MaxRuns == 2

TileLayer == [kind |-> "Tile"]

ObjectLayer == [kind |-> "Object"]

GroupLayer(content) == [kind |-> "Group", content |-> content]

\* the layer lists (ForestsOfSize) and the layers (LayersOfSize) that hold
\* exactly n layers, groups and all their descendants counted
RECURSIVE ForestsOfSize(_), LayersOfSize(_)
LayersOfSize(n) ==
    (IF n = 1 THEN {TileLayer, ObjectLayer} ELSE {})
        \cup {GroupLayer(c) : c \in ForestsOfSize(n - 1)}

ForestsOfSize(n) ==
    IF n = 0 THEN {<< >>}
    ELSE UNION { { <<l>> \o f : l \in LayersOfSize(k), f \in ForestsOfSize(n - k) }
                 : k \in 1 .. n }

LayerTrees == UNION {ForestsOfSize(n) : n \in 0 .. MaxLayers}

\* A layer is named by its path: the index of its top-level ancestor in
\* Map.layers, then the index inside each group on the way down.  The vector
\* a path names is Map.layers for the empty path, else that group's content.
RECURSIVE ContentAt(_, _)
ContentAt(content, path) ==
    IF path = << >> THEN content
    ELSE ContentAt(content[Head(path)].content, Tail(path))

LayerAt(content, path) ==
    ContentAt(content, SubSeq(path, 1, Len(path) - 1))[path[Len(path)]]

-----------------------------------------------------------------------------
(* LayerIterator *)

NoneItem == [kind |-> "None"]

SomeItem(layer, pops) == [kind |-> "Some", layer |-> layer, pops |-> pops]

\* group.content.iter() / layers.iter(): a slice iterator is the vector it
\* walks and the index of the element it yields next
SliceIter(vec) == [vec |-> vec, next |-> 1]

\* LayerIterator::new
LayerIterator_new == <<SliceIter(<< >>)>>

\* a next() that never descends into a group
PushGroup_Never(st, layer, path) == st

\* a next() that pushes the cursor of a group twice
PushGroup_Twice(st, layer, path) ==
    IF layer.kind = "Group"
    THEN Append(Append(st, SliceIter(path)), SliceIter(path))
    ELSE st

\* if let Layer::Group(group) = layer { self.iter_stack.push(group.content.iter()) }
PushGroup(st, layer, path) ==
    IF layer.kind = "Group" THEN Append(st, SliceIter(path)) ELSE st

\* a next() that forgets to count
CountPop_Stuck(pops) == pops

\* a next() that counts every exhausted iterator twice
CountPop_Twice(pops) == pops + 2

\* pops += 1
CountPop(pops) == pops + 1

\* the while-let loop of LayerIterator::next, entered with pops = 0
RECURSIVE NextLoop(_, _)
NextLoop(st, pops) ==
    IF st = << >> THEN [iter_stack |-> st, item |-> NoneItem]
    ELSE
      LET iter == st[Len(st)]
          vec == ContentAt(layers, iter.vec)
      IN  IF iter.next <= Len(vec)
          THEN LET path == Append(iter.vec, iter.next)
                   advanced == [st EXCEPT ![Len(st)].next = @ + 1]
               IN  [iter_stack |-> PushGroup(advanced, vec[iter.next], path),
                    item |-> SomeItem(path, pops)]
          ELSE NextLoop(SubSeq(st, 1, Len(st) - 1), CountPop(pops))

\* a next() whose count does not start at zero
LayerIterator_next_StalePops(st) == NextLoop(st, 1)

\* let mut pops = 0; while let ...
LayerIterator_next(st) == NextLoop(st, 0)

-----------------------------------------------------------------------------
(* A consumer: for (layer, pops) in map.iter_layers() { pop; handle; push } *)

\* map.iter_layers(): a fresh iterator, and the consumer's stack starts empty
IterLayers ==
    /\ runs < MaxRuns
    /\ pc \in {"idle", "next", "done"}
    /\ runs' = runs + 1
    /\ iter_stack' = LayerIterator_new
    /\ item' = NotCalled
    /\ yielded' = << >>
    /\ stack' = << >>
    /\ prev_run' = IF pc = "done" THEN [kind |-> "Run", items |-> yielded] ELSE prev_run
    /\ pc' = "next"
    /\ UNCHANGED <<layers, gidVars, rmVars, loadVars>>

\* the for-loop calls next(); a call after the end is allowed
IterNext ==
    /\ pc \in {"next", "done"}
    /\ LET r == LayerIterator_next(iter_stack)
       IN  /\ iter_stack' = r.iter_stack
           /\ item' = r.item
           /\ yielded' = IF r.item.kind = "Some" THEN Append(yielded, r.item) ELSE yielded
           /\ pc' = IF r.item.kind = "Some" THEN "pop" ELSE "done"
    /\ UNCHANGED <<layers, stack, runs, prev_run, gidVars, rmVars, loadVars>>

\* the consumer drops pops entries from the top of its stack
\* (indent -= groups_left; opacities.truncate(opacities.len() - pops)):
\* dropping more than it holds underflows the unsigned length
ConsumerPop ==
    /\ pc = "pop"
    /\ IF item.pops <= Len(stack)
       THEN /\ stack' = SubSeq(stack, 1, Len(stack) - item.pops)
            /\ pc' = "handle"
       ELSE /\ stack' = stack
            /\ pc' = "underflow"
    /\ UNCHANGED <<layers, iter_stack, item, yielded, runs, prev_run, gidVars, rmVars, loadVars>>

\* the consumer handles the layer and, for a group, pushes its entry
ConsumerHandle ==
    /\ pc = "handle"
    /\ stack' = IF LayerAt(layers, item.layer).kind = "Group"
                THEN Append(stack, item.layer)
                ELSE stack
    /\ pc' = "next"
    /\ UNCHANGED <<layers, iter_stack, item, yielded, runs, prev_run, gidVars, rmVars, loadVars>>

GidIdle ==
    /\ tilesets = << >>
    /\ query = NotCalled
    /\ result = NotCalled
    /\ inspected = NotCalled
    /\ ResourceManager_new

InitLayers ==
    /\ LoadIdle
    /\ layers \in LayerTrees
    /\ iter_stack = << >>
    /\ item = NotCalled
    /\ yielded = << >>
    /\ pc = "idle"
    /\ stack = << >>
    /\ runs = 0
    /\ prev_run = [kind |-> "NoRun"]
    /\ GidIdle

NextLayers ==
    \/ IterLayers
    \/ IterNext
    \/ ConsumerPop
    \/ ConsumerHandle

SpecLayers == InitLayers /\ [][NextLayers]_vars

-----------------------------------------------------------------------------
(* Layer traversal: what the claims say of iter_layers *)

\* the paths of all layers below the vector at prefix, depth-first pre-order:
\* a group, then its children in document order, then its next sibling
RECURSIVE PreOrderFrom(_, _, _)
PreOrderFrom(content, prefix, i) ==
    IF i > Len(content) THEN << >>
    ELSE LET here == Append(prefix, i)
             below == IF content[i].kind = "Group"
                      THEN PreOrderFrom(content[i].content, here, 1)
                      ELSE << >>
         IN  <<here>> \o below \o PreOrderFrom(content, prefix, i + 1)

PreOrder == PreOrderFrom(layers, << >>, 1)

\* N: the layers of a list, groups and all their descendants counted
RECURSIVE CountLayers(_)
CountLayers(content) ==
    IF content = << >> THEN 0
    ELSE 1 + (IF Head(content).kind = "Group" THEN CountLayers(Head(content).content) ELSE 0)
           + CountLayers(Tail(content))

YieldedLayers == [i \in 1 .. Len(yielded) |-> yielded[i].layer]

IsGroup(path) == LayerAt(layers, path).kind = "Group"

\* the nesting depth of a layer: the number of groups around it
Depth(path) == Len(path) - 1

\* C6: a traversal yields the N layers of the tree, each once, in depth-first
\* pre-order, and then ends (next() keeps returning None); a second call of
\* iter_layers yields the same sequence again.
C6_PreOrderExactlyOnce ==
    /\ pc \in {"next", "pop", "handle", "done"} =>
          /\ Len(yielded) <= Len(PreOrder)
          /\ YieldedLayers = SubSeq(PreOrder, 1, Len(yielded))
    /\ pc = "done" =>
          /\ Len(yielded) = CountLayers(layers)
          /\ YieldedLayers = PreOrder
          /\ \A i, j \in 1 .. Len(yielded) : yielded[i].layer = yielded[j].layer => i = j
          /\ item = NoneItem
          /\ LayerIterator_next(iter_stack).item = NoneItem
          /\ prev_run.kind = "Run" => yielded = prev_run.items

\* a second traversal of a tree with a group that has a child next to a later
\* sibling has run to its end
C6_Witness ==
    /\ pc = "done"
    /\ prev_run.kind = "Run"
    /\ Len(yielded) = MaxLayers
    /\ \E i \in 1 .. Len(yielded) : Depth(yielded[i].layer) = 2
    /\ \E i \in 1 .. Len(yielded) - 1 :
          Depth(yielded[i].layer) > Depth(yielded[i + 1].layer)

\* the group scopes left between the item before the i-th and the i-th: those
\* open after the earlier item (its ancestors, and itself if it is a group)
\* less those around the i-th
ScopesExited(i) ==
    IF i = 1 THEN 0
    ELSE Depth(yielded[i - 1].layer)
            + (IF IsGroup(yielded[i - 1].layer) THEN 1 ELSE 0)
            - Depth(yielded[i].layer)

\* C7: the pop_count of every yielded item is the number of group scopes
\* exited since the item before it: 0 for the first item, 0 for the first
\* child of a group, 0 right after a non-group sibling, k when k groups (an
\* empty group just yielded included) ended in between.
C7_PopsAreScopesExited ==
    \A i \in 1 .. Len(yielded) :
        LET cur == yielded[i].layer
        IN  /\ yielded[i].pops = ScopesExited(i)
            /\ i = 1 => yielded[i].pops = 0
            /\ (i > 1 /\ cur[Len(cur)] = 1) => yielded[i].pops = 0
            /\ (i > 1 /\ ~IsGroup(yielded[i - 1].layer)
                      /\ Depth(yielded[i - 1].layer) = Depth(cur)) => yielded[i].pops = 0
            /\ (i > 1 /\ IsGroup(yielded[i - 1].layer)
                      /\ ContentAt(layers, yielded[i - 1].layer) = << >>
                      /\ Depth(yielded[i - 1].layer) = Depth(cur)) => yielded[i].pops = 1

\* an item with two pops, and an item with one pop right after an empty group,
\* have been yielded
C7_Witness ==
    /\ \E i \in 1 .. Len(yielded) : yielded[i].pops = 2
    /\ \E i \in 2 .. Len(yielded) :
          /\ yielded[i].pops = 1
          /\ IsGroup(yielded[i - 1].layer)
          /\ ContentAt(layers, yielded[i - 1].layer) = << >>

RECURSIVE SumPops(_)
SumPops(items) ==
    IF items = << >> THEN 0 ELSE Head(items).pops + SumPops(Tail(items))

GroupPaths == {PreOrder[i] : i \in {j \in 1 .. Len(PreOrder) : IsGroup(PreOrder[j])}}

IsPrefix(a, b) == Len(a) <= Len(b) /\ SubSeq(b, 1, Len(a)) = a

\* C8 as stated: over a complete traversal the pop_counts add up to the
\* number of groups that had at least one yielded child.
C8_SumIsGroupsWithChildren ==
    pc = "done" =>
        SumPops(yielded) =
            Cardinality({g \in GroupPaths : ContentAt(layers, g) # << >>})

\* C8 amended: over a complete traversal the pop_counts add up to the number
\* of groups, empty ones included, that are neither the last yielded layer nor
\* one of its ancestors; the groups still open at the last item are popped
\* inside the call that returns None and reported with no item.
C8_SumIsGroupsClosedBeforeLast ==
    pc = "done" =>
        SumPops(yielded) =
            IF yielded = << >> THEN 0
            ELSE Cardinality({g \in GroupPaths :
                                ~IsPrefix(g, yielded[Len(yielded)].layer)})

\* a complete traversal of a tree that has an empty group before a later
\* layer, and that ends inside a group
C8_Witness ==
    /\ pc = "done"
    /\ yielded # << >>
    /\ Depth(yielded[Len(yielded)].layer) >= 1
    /\ SumPops(yielded) >= 1
    /\ \E g \in GroupPaths : ContentAt(layers, g) = << >>

\* the groups around a layer, outermost first
Ancestors(path) == [k \in 1 .. Len(path) - 1 |-> SubSeq(path, 1, k)]

\* C9: a consumer that drops pop_count entries before handling each layer and
\* pushes one entry after handling each group never drops more than it holds,
\* and when it handles a layer its stack holds exactly the entries of that
\* layer's ancestor groups, as many as its nesting depth.
C9_ConsumerStackIsAncestors ==
    /\ pc # "underflow"
    /\ pc = "pop" => item.pops <= Len(stack)
    /\ pc = "handle" =>
          /\ Len(stack) = Depth(item.layer)
          /\ stack = Ancestors(item.layer)

\* the consumer handles a layer after dropping two entries, with one left
C9_Witness ==
    /\ pc = "handle"
    /\ item.pops = 2
    /\ Len(stack) = 1

\* the maximum group nesting depth of the tree: the most groups around the
\* content of any group, 0 for a tree without groups
MaxGroupNesting ==
    IF GroupPaths = {} THEN 0
    ELSE LET deepest == CHOOSE g \in GroupPaths : \A h \in GroupPaths : Len(h) <= Len(g)
         IN  Len(deepest)

\* C24: the iterator's stack never holds more than the maximum group nesting
\* depth of the tree plus one entries; once next() has returned None the stack
\* is empty and a further call returns None and leaves it empty.
C24_StackBoundedByDepth ==
    /\ Len(iter_stack) <= MaxGroupNesting + 1
    /\ item = NoneItem =>
          /\ iter_stack = << >>
          /\ LayerIterator_next(iter_stack) = [iter_stack |-> << >>, item |-> NoneItem]

\* the traversal of a tree with more layers than nesting depth has ended:
\* next() returned None after a layer inside a group inside a group
C24_Witness ==
    /\ item = NoneItem
    /\ pc = "done"
    /\ MaxGroupNesting = 2
    /\ CountLayers(layers) = MaxLayers
    /\ \E i \in 1 .. Len(yielded) : Depth(yielded[i].layer) = 2

-----------------------------------------------------------------------------
(* ResourceManager: load_image and set_base_path *)

MaxRequests == 3

\* paths are strings, written as sequences of characters so that they can be
\* joined
BasePaths == { <<".">>, <<"m">>, <<"m", "/", "a">> }

RelativePaths == { <<"t">>, <<"a", "/", "t">> }

\* a key that leaves the base path out
ResolvePath_IgnoreBase(base, path) == path

\* format!("{}/{}", &self.base_path, path)
ResolvePath(base, path) == base \o <<"/">> \o path

\* an Rc<dyn Any>: the allocation it points to and the data the loader gave
RcHandle(rc, data) == [rc |-> rc, data |-> data]

Ok(value) == [kind |-> "Ok", value |-> value]

Err == [kind |-> "Err"]

\* a vacant slot that stays vacant
CacheInsert_Forget(cache, path, handle) == cache

\* slot.insert(data)
CacheInsert(cache, path, handle) ==
    [p \in DOMAIN cache \cup {path} |-> IF p = path THEN handle ELSE cache[p]]

\* a load_image that fills the slot before it asks the loader, and leaves
\* the handle there when the loader fails
load_image_KeepsFailure(base, cache, rcs, relative, loads) ==
    LET path == ResolvePath(base, relative)
        handle == RcHandle(rcs + 1, path)
    IN  IF path \in DOMAIN cache
        THEN [image_cache |-> cache, rc_count |-> rcs, loader_calls |-> << >>,
              path |-> path, result |-> Ok(cache[path])]
        ELSE [image_cache |-> CacheInsert(cache, path, handle), rc_count |-> rcs + 1,
              loader_calls |-> << [path |-> path, ok |-> loads] >>,
              path |-> path, result |-> IF loads THEN Ok(handle) ELSE Err]

\* ResourceManager::load_image; loads tells whether the ImageLoader, if it is
\* asked, succeeds.  The outcome: the cache, the Rc count, the calls made to
\* the loader and the value returned.
load_image(base, cache, rcs, relative, loads) ==
    LET path == ResolvePath(base, relative)
    IN  IF path \in DOMAIN cache
        THEN \* Occupied(slot) => slot.get().clone()
             [image_cache |-> cache, rc_count |-> rcs, loader_calls |-> << >>,
              path |-> path, result |-> Ok(cache[path])]
        ELSE IF ~loads
        THEN \* self.image_loader.load(&path)? returns the error
             [image_cache |-> cache, rc_count |-> rcs,
              loader_calls |-> << [path |-> path, ok |-> FALSE] >>,
              path |-> path, result |-> Err]
        ELSE \* Vacant(slot) => slot.insert(data).clone()
             LET handle == RcHandle(rcs + 1, path)
             IN  [image_cache |-> CacheInsert(cache, path, handle), rc_count |-> rcs + 1,
                  loader_calls |-> << [path |-> path, ok |-> TRUE] >>,
                  path |-> path, result |-> Ok(handle)]

LoadImage(relative) ==
    /\ Len(request_log) + Len(template_log) < MaxRequests
    /\ \E loads \in BOOLEAN :
          LET r == load_image(base_path, image_cache, rc_count, relative, loads)
          IN  /\ image_cache' = r.image_cache
              /\ rc_count' = r.rc_count
              /\ loader_log' = loader_log \o r.loader_calls
              /\ request_log' = Append(request_log,
                                        [path |-> r.path, result |-> r.result,
                                         base_path |-> base_path, relpath |-> relative])
    /\ UNCHANGED <<base_path, tmplVars, gidVars, layerVars, loadVars>>

\* ResourceManager::set_base_path
SetBasePath(new_base) ==
    /\ base_path' = new_base
    /\ UNCHANGED <<image_cache, rc_count, loader_log, request_log, tmplVars,
                   gidVars, layerVars, loadVars>>

InitResources ==
    /\ LoadIdle
    /\ ResourceManager_new
    /\ GidIdle
    /\ LayersIdle

NextResources ==
    \/ \E relative \in RelativePaths : LoadImage(relative)
    \/ \E new_base \in BasePaths : SetBasePath(new_base)

SpecResources == InitResources /\ [][NextResources]_vars

-----------------------------------------------------------------------------
(* Image memoisation: what the claims say of load_image *)

LoaderCallsFor(path) == {i \in 1 .. Len(loader_log) : loader_log[i].path = path}

RequestsFor(path) == {i \in 1 .. Len(request_log) : request_log[i].path = path}

RequestedPaths == {request_log[i].path : i \in 1 .. Len(request_log)}

\* C10 as stated: the Image Loader is invoked at most once per resolved path,
\* and every handle returned for a path is reference-equal to the first one
\* returned for it.
C10_LoaderAtMostOncePerPath ==
    \A path \in RequestedPaths :
        /\ Cardinality(LoaderCallsFor(path)) <= 1
        /\ \A i, j \in {k \in RequestsFor(path) : request_log[k].result.kind = "Ok"} :
              request_log[i].result.value.rc = request_log[j].result.value.rc

\* C10 amended: the Image Loader succeeds at most once per resolved path and
\* is never invoked for a path again after it has succeeded for it (a failed
\* load is not cached, so the next request for the path invokes the loader
\* again); it has succeeded exactly once for a path iff some request for the
\* path returned a handle, and all handles returned for one path are
\* reference-equal (the same Rc allocation).
C10_LoaderSucceedsAtMostOncePerPath ==
    \A path \in RequestedPaths :
        LET calls == LoaderCallsFor(path)
            good == {i \in calls : loader_log[i].ok}
            served == {i \in RequestsFor(path) : request_log[i].result.kind = "Ok"}
        IN  /\ Cardinality(good) <= 1
            /\ \A i \in good : \A j \in calls : j <= i
            /\ (served # {}) <=> (Cardinality(good) = 1)
            /\ \A i, j \in served :
                  request_log[i].result.value.rc = request_log[j].result.value.rc
            /\ \A i \in served : \A p \in RequestedPaths \ {path} :
                  \A j \in {k \in RequestsFor(p) : request_log[k].result.kind = "Ok"} :
                      request_log[i].result.value.rc # request_log[j].result.value.rc

\* a path was requested three times: the load failed, then succeeded, and the
\* third request was served from the cache
C10_Witness ==
    \E path \in RequestedPaths :
        /\ Cardinality(RequestsFor(path)) = 3
        /\ Cardinality(LoaderCallsFor(path)) = 2
        /\ request_log[1].result = Err
        /\ request_log[3].result.kind = "Ok"
        /\ request_log[3].result = request_log[2].result

-----------------------------------------------------------------------------
(* ResourceManager: load_object_template *)

\* an Object as far as a template is told apart from another
Object_new(id) == [id |-> id, name |-> "", properties |-> << >>]

\* Object::fill_from_xml: the attributes of the node are written over the
\* object; a node that cannot be read is an error
fill_from_xml(object, node) ==
    IF node.readable
    THEN Ok([object EXCEPT !.name = node.name])
    ELSE Err

\* what Provider::read may hand back for a path at the time it is asked: an
\* io error, bytes that are not utf8, text that is not xml, a document with
\* no object node, or a document whose first object node is as given.  The
\* file may have changed between two reads.
Provided ==
    { [kind |-> "io_error"], [kind |-> "not_utf8"], [kind |-> "not_xml"],
      [kind |-> "no_object"] }
    \cup { [kind |-> "template", node |-> [readable |-> r, name |-> n]] :
               r \in BOOLEAN, n \in {"chest", "door"} }

\* a vacant template slot that stays vacant
TemplateInsert_Forget(cache, path, object) == cache

\* slot.insert(result)
TemplateInsert(cache, path, object) ==
    [p \in DOMAIN cache \cup {path} |-> IF p = path THEN object ELSE cache[p]]

\* no entry of the template cache
NoSlot == [kind |-> "NoSlot"]

\* a reference to the Object in the slot, handed out in place of a copy
Slot_borrow(path, object) == [path |-> path, object |-> object, slot |-> Ok(path)]

\* slot.get().clone() and slot.insert(result).clone(): an Object of its own
\* that shares nothing with the one in the slot
Slot_clone(path, object) == [path |-> path, object |-> object, slot |-> NoSlot]

\* ResourceManager::load_object_template; provided is what the Provider
\* hands back if it is asked.  The outcome: the cache, the reads made of the
\* Provider and the value returned.
load_object_template(base, cache, relative, provided) ==
    LET path == ResolvePath(base, relative)
        read(parsed) == << [path |-> path, base_path |-> base, relpath |-> relative,
                            parsed |-> parsed] >>
        failed == [template_cache |-> cache, reads |-> read([kind |-> "None"]),
                   path |-> path, result |-> Err, returned |-> << >>]
    IN  IF path \in DOMAIN cache
        THEN \* Occupied(slot) => slot.get().clone()
             [template_cache |-> cache, reads |-> << >>,
              path |-> path, result |-> Ok(cache[path]),
              returned |-> << Slot_clone(path, cache[path]) >>]
        ELSE IF provided.kind \in {"io_error", "not_utf8", "not_xml", "no_object"}
        THEN \* one of the four ? before the object node is found
             failed
        ELSE LET filled == fill_from_xml(Object_new(0), provided.node)
             IN  IF filled = Err
                 THEN \* result.fill_from_xml(&object_node)?
                      failed
                 ELSE \* Vacant(slot) => slot.insert(result).clone()
                      [template_cache |-> TemplateInsert(cache, path, filled.value),
                       reads |-> read([kind |-> "Some", object |-> filled.value]),
                       path |-> path, result |-> Ok(filled.value),
                       returned |-> << Slot_clone(path, filled.value) >>]

LoadObjectTemplate(relative) ==
    /\ Len(request_log) + Len(template_log) < MaxRequests
    /\ \E provided \in Provided :
          LET r == load_object_template(base_path, template_cache, relative, provided)
          IN  /\ template_cache' = r.template_cache
              /\ provider_log' = provider_log \o r.reads
              /\ template_log' = Append(template_log, [path |-> r.path, result |-> r.result])
              /\ handed' = handed \o r.returned
    /\ UNCHANGED <<base_path, image_cache, rc_count, loader_log, request_log,
                   gidVars, layerVars, loadVars>>

NextTemplates ==
    \/ \E relative \in RelativePaths : LoadObjectTemplate(relative)
    \/ \E new_base \in BasePaths : SetBasePath(new_base)

SpecTemplates == InitResources /\ [][NextTemplates]_vars

-----------------------------------------------------------------------------
(* Template memoisation: what the claims say of load_object_template *)

ProviderReadsFor(path) == {i \in 1 .. Len(provider_log) : provider_log[i].path = path}

TemplateRequestsFor(path) == {i \in 1 .. Len(template_log) : template_log[i].path = path}

TemplatePaths == {template_log[i].path : i \in 1 .. Len(template_log)}

ParsedReadsFor(path) == {i \in ProviderReadsFor(path) : provider_log[i].parsed.kind = "Some"}

ServedTemplatesFor(path) ==
    {i \in TemplateRequestsFor(path) : template_log[i].result.kind = "Ok"}

\* C11 as stated: for each distinct resolved path the Provider is read and
\* the template parsed at most once, and every request that is served gets an
\* Object equal to the one first parsed.
C11_ReadAtMostOncePerPath ==
    \A path \in TemplatePaths :
        /\ Cardinality(ProviderReadsFor(path)) <= 1
        /\ \A i \in ServedTemplatesFor(path) : \A j \in ParsedReadsFor(path) :
              template_log[i].result.value = provider_log[j].parsed.object

\* C11 amended: for each distinct resolved path a template is parsed to its
\* end at most once, and the Provider is never read for the path again after
\* that (a read or parse that fails is not cached, so the next request for the
\* path reads the Provider again); a request for the path is served iff the
\* template has been parsed, and every request served gets an Object equal to
\* the one first parsed, whatever the Provider would hand back by then.
C11_ParsedAtMostOncePerPath ==
    \A path \in TemplatePaths :
        LET reads == ProviderReadsFor(path)
            parsed == ParsedReadsFor(path)
            served == ServedTemplatesFor(path)
        IN  /\ Cardinality(parsed) <= 1
            /\ \A i \in parsed : \A j \in reads : j <= i
            /\ (served # {}) <=> (Cardinality(parsed) = 1)
            /\ \A i \in served : \A j \in parsed :
                  template_log[i].result.value = provider_log[j].parsed.object
            /\ Cardinality(reads) + Cardinality(served) =
                   Cardinality(TemplateRequestsFor(path)) + Cardinality(parsed)
            /\ path \in DOMAIN template_cache <=> parsed # {}

\* a template was requested three times: the read failed, then the template
\* was parsed, and the third request was served from the cache
C11_Witness ==
    \E path \in TemplatePaths :
        /\ Cardinality(TemplateRequestsFor(path)) = 3
        /\ Cardinality(ProviderReadsFor(path)) = 2
        /\ template_log[1].result = Err
        /\ template_log[3].result.kind = "Ok"
        /\ template_log[3].result = template_log[2].result

-----------------------------------------------------------------------------
(* Tile data: read_data_tag, TileLayer::parse_data, TileLayer::from_xml *)

MaxTiles == 4

\* node.attribute(name): None, or Some(text)
Absent == [kind |-> "Absent"]

Attr(text) == [kind |-> "Attr", text |-> text]

\* the values of Error that the loader returns
StructureError(tag) == [kind |-> "Err", error |-> "StructureError", tag |-> tag]

ParseError == [kind |-> "Err", error |-> "ParseError"]

IOError == [kind |-> "Err", error |-> "IO"]

\* std::mem::size_of::<u32>()
BYTE_SIZE == 4

ZeroWord == [b \in BitPositions |-> 0]

\* the word whose most significant byte comes first
from_be_bytes(c) ==
    [b \in BitPositions |-> (c[BYTE_SIZE - (b \div 8)] \div Pow2(b % 8)) % 2]

\* u32::from_le_bytes: byte k (from 0) holds the bits 8k .. 8k+7
from_le_bytes(c) ==
    [b \in BitPositions |-> (c[(b \div 8) + 1] \div Pow2(b % 8)) % 2]

\* raw_bytes.chunks_exact(n): the full chunks, a remainder is left out
chunks_exact(bytes, n) ==
    [i \in 1 .. (Len(bytes) \div n) |-> SubSeq(bytes, n * (i - 1) + 1, n * i)]

SomeGID(raw) == [kind |-> "Some", gid |-> raw]

\* Some(GID(NonZeroU32::new(word)?)): None for the word zero
TileOfChunk(c) ==
    LET word == from_le_bytes(c)
    IN  IF word = ZeroWord THEN None ELSE SomeGID(word)

\* read_data_tag.  The text of the node is given by what the base64 crate and
\* libflate make of it: whether it is base64 at all, whether what it decodes
\* to is a stream of the declared compression, and the bytes it carries.
read_data_tag(data_node) ==
    IF data_node.encoding = Attr("csv")
    THEN \* todo!{"Implement csv parsing"}
         Panic
    ELSE IF data_node.encoding = Attr("base64")
    THEN IF ~data_node.text.base64
         THEN ParseError
         ELSE IF data_node.compression = Absent
         THEN Ok(data_node.text.bytes)
         ELSE IF data_node.compression \in {Attr("zlib"), Attr("gzip")}
         THEN IF data_node.text.stream THEN Ok(data_node.text.bytes) ELSE IOError
         ELSE StructureError("data")
    ELSE StructureError("data")

\* TileLayer::parse_data
parse_data(data_node) ==
    IF data_node.encoding = Absent
    THEN \* todo!{"Tag based tile data loading not yet implemented"}
         Panic
    ELSE LET raw_bytes == read_data_tag(data_node)
         IN  IF raw_bytes.kind # "Ok"
             THEN raw_bytes
             ELSE IF Len(raw_bytes.value) % BYTE_SIZE # 0
             THEN \* assert!(raw_bytes.len() % BYTE_SIZE == 0)
                  Panic
             ELSE LET chunks == chunks_exact(raw_bytes.value, BYTE_SIZE)
                  IN  Ok([i \in DOMAIN chunks |-> TileOfChunk(chunks[i])])

\* TileLayer::from_xml, its fields in the order they are evaluated; also what
\* parse_data returned, if it was reached
TileLayer_from_xml(tmx) ==
    IF tmx.width = Absent \/ tmx.height = Absent
    THEN [decoded |-> NotCalled, result |-> StructureError("layer")]
    ELSE IF tmx.data = Absent
    THEN \* find(..).unwrap() of None
         [decoded |-> NotCalled, result |-> Panic]
    ELSE LET tiles == parse_data(tmx.data)
         IN  [decoded |-> tiles,
              result |-> IF tiles.kind # "Ok"
                         THEN tiles
                         ELSE Ok([size |-> ivec2(tmx.width.text, tmx.height.text),
                                  tiles |-> tiles.value])]

\* four bytes of a payload: an empty tile, tile 2 flipped horizontally, tile 256
ByteChunks == { <<0, 0, 0, 0>>, <<2, 0, 0, 128>>, <<0, 1, 0, 0>> }

\* what may follow the last full chunk
Tails == { << >>, <<7>>, <<7, 0, 0>> }

RECURSIVE Chunked(_)
Chunked(n) ==
    IF n = 0 THEN { << >> }
    ELSE { body \o c : body \in Chunked(n - 1), c \in ByteChunks }

Payloads ==
    UNION { { body \o tail : body \in Chunked(n), tail \in Tails } : n \in 0 .. MaxTiles }

Compressions == { Absent, Attr("zlib"), Attr("gzip") }

\* data nodes that read_data_tag can read, and data nodes of every other kind
DataNodes ==
    { [encoding |-> Attr("base64"), compression |-> c,
       text |-> [base64 |-> TRUE, stream |-> TRUE, bytes |-> b]] :
          c \in Compressions, b \in Payloads }
    \cup
    { [encoding |-> e, compression |-> c,
       text |-> [base64 |-> b64, stream |-> st, bytes |-> <<2, 0, 0, 128>>]] :
          e \in {Absent, Attr("csv"), Attr("base64"), Attr("hex")},
          c \in Compressions \cup {Attr("zstd")},
          b64 \in BOOLEAN, st \in BOOLEAN }

SizeAttrs == {Absent} \cup {Attr(n) : n \in 0 .. 2}

LayerNodes == [width : SizeAttrs, height : SizeAttrs, data : DataNodes \cup {Absent}]

\* TileLayer::from_xml is called for a <layer> element
FromXml ==
    /\ layer_node = NotCalled
    /\ \E tmx \in LayerNodes :
          LET r == TileLayer_from_xml(tmx)
          IN  /\ layer_node' = tmx
              /\ decoded' = r.decoded
              /\ tile_layer' = r.result
    /\ UNCHANGED <<map_node, renderorder, tile_pos, tile_item, tile_items,
                   gidVars, layerVars, rmVars, mapVars, propVars, attrVars>>

InitData ==
    /\ TilesIdle
    /\ MapIdle
    /\ PropsIdle
    /\ AttrsIdle
    /\ GidIdle
    /\ LayersIdle

NextData == FromXml

SpecData == InitData /\ [][NextData]_vars

-----------------------------------------------------------------------------
(* Tile data: what the claims say of the decoder *)

\* the data node that parse_data was given
DataNode == layer_node.data

\* read_data_tag can read the node: base64 text, no or a known compression
Readable(data_node) ==
    /\ data_node.encoding = Attr("base64")
    /\ data_node.compression \in Compressions
    /\ data_node.text.base64
    /\ data_node.compression # Absent => data_node.text.stream

\* bit b of the little-endian word that starts at byte 4(i-1)+1 of bytes
WordBit(bytes, i, b) == (bytes[4 * (i - 1) + (b \div 8) + 1] \div Pow2(b % 8)) % 2

\* C13: a payload of 4n bytes decodes to n entries in order, entry i read
\* from the bytes 4i .. 4i+3 as a little-endian word: None if the word is
\* zero, else Some(GID) with all 32 bits of the word, flip bits included.
C13_DecodesLittleEndianWords ==
    (/\ decoded # NotCalled
     /\ Readable(DataNode)
     /\ Len(DataNode.text.bytes) % 4 = 0)
    => LET bytes == DataNode.text.bytes
       IN  /\ decoded.kind = "Ok"
           /\ Len(decoded.value) * 4 = Len(bytes)
           /\ \A i \in 1 .. Len(decoded.value) :
                 IF \A k \in 1 .. 4 : bytes[4 * (i - 1) + k] = 0
                 THEN decoded.value[i] = None
                 ELSE /\ decoded.value[i].kind = "Some"
                      /\ \A b \in BitPositions :
                            decoded.value[i].gid[b] = WordBit(bytes, i, b)

\* three entries were decoded: an empty tile, then a tile with the horizontal
\* flip bit, then tile 256
C13_Witness ==
    /\ decoded # NotCalled
    /\ decoded.kind = "Ok"
    /\ Len(decoded.value) = 3
    /\ decoded.value[1] = None
    /\ decoded.value[2] = SomeGID(U32FromParts(4, 2))
    /\ decoded.value[3] = SomeGID(U32FromParts(0, 256))

\* C14 as stated: a payload that read_data_tag can read and whose byte count
\* is not divisible by 4 makes the load return an error value; it is never
\* truncated to whole tiles.
C14_RaggedPayloadIsError ==
    (/\ decoded # NotCalled
     /\ Readable(DataNode)
     /\ Len(DataNode.text.bytes) % 4 # 0)
    => /\ decoded.kind = "Err"
       /\ tile_layer.kind = "Err"

\* C15 as stated: every TileLayer that a parse returns has exactly
\* width * height tiles.
C15_TilesFillTheLayer ==
    tile_layer.kind = "Ok" =>
        Len(tile_layer.value.tiles) = tile_layer.value.size.x * tile_layer.value.size.y

\* C18 as stated: a data element whose encoding is not base64 (csv and no
\* encoding at all included), or whose compression is none of absent, zlib
\* and gzip, makes parsing return an error value that names the data tag.
C18_UnsupportedDataIsError ==
    (/\ decoded # NotCalled
     /\ DataNode.encoding = Attr("base64") => DataNode.text.base64
     /\ \/ DataNode.encoding # Attr("base64")
        \/ DataNode.compression \notin Compressions)
    => tile_layer = StructureError("data")

-----------------------------------------------------------------------------
(* Renderorder and TileIterator *)

\* Renderorder::from_str
Renderorder_from_str(s) ==
    CASE s = "right-down" -> Ok("RightDown")
      [] s = "right-up" -> Ok("RightUp")
      [] s = "left-down" -> Ok("LeftDown")
      [] s = "left-up" -> Ok("LeftUp")
      [] OTHER -> ParseError

\* attribute_or_default(&map_node, "renderorder"); the default is RightDown
renderorder_or_default(attr) ==
    IF attr = Absent THEN Ok("RightDown") ELSE Renderorder_from_str(attr.text)

PanicWith(msg) == [kind |-> "Panic", msg |-> msg]

\* the assert_eq! of TileIterator::next
OnlyRightDown == PanicWith("Only right-down renderorder is implemented right now")

\* self.layer.tiles[idx as usize] with idx beyond the vector
OutOfBounds == PanicWith("index out of bounds")

SomeTile(pos, tile) == [kind |-> "Some", pos |-> pos, tile |-> tile]

\* TileIterator::new
TileIterator_new == ivec2(0, 0)

\* the position after the row wrap of TileIterator::next
WrapRow(layer, pos) ==
    IF pos.x >= layer.size.x THEN ivec2(0, pos.y + 1) ELSE pos

\* the steps of next that follow the assertion: the position left behind and
\* the item returned
NextTile(layer, pos) ==
    LET wrapped == WrapRow(layer, pos)
        idx == wrapped.x + layer.size.x * wrapped.y
    IN  IF wrapped.y >= layer.size.y
        THEN [pos |-> wrapped, item |-> None]
        ELSE IF idx + 1 \notin DOMAIN layer.tiles
        THEN [pos |-> wrapped, item |-> OutOfBounds]
        ELSE [pos |-> ivec2(wrapped.x + 1, wrapped.y),
              item |-> SomeTile(wrapped, layer.tiles[idx + 1])]

\* an iterator that walks the tiles whatever the render order
TileIterator_next_AnyOrder(order, layer, pos) == NextTile(layer, pos)

\* TileIterator::next
TileIterator_next(order, layer, pos) ==
    IF order # "RightDown"
    THEN [pos |-> pos, item |-> OnlyRightDown]
    ELSE NextTile(layer, pos)

MapNodes ==
    [renderorder : {Absent, Attr("right-down"), Attr("right-up"), Attr("left-down"),
                    Attr("left-up"), Attr("down-right")}]

\* the layers to iterate over: their data is readable and holds whole words
TileLayerNodes ==
    {tmx \in [width : SizeAttrs \ {Absent}, height : SizeAttrs \ {Absent},
              data : {n \in DataNodes : n.compression = Absent}] :
        /\ Readable(tmx.data)
        /\ Len(tmx.data.text.bytes) % BYTE_SIZE = 0}

\* Map::from_xml_str, for a map of one tile layer: the render order and the
\* layer
LoadTiles ==
    /\ map_node = NotCalled
    /\ \E node \in MapNodes, tmx \in TileLayerNodes :
          LET r == TileLayer_from_xml(tmx)
          IN  /\ map_node' = node
              /\ renderorder' = renderorder_or_default(node.renderorder)
              /\ layer_node' = tmx
              /\ decoded' = r.decoded
              /\ tile_layer' = r.result
    /\ UNCHANGED <<tile_pos, tile_item, tile_items, gidVars, layerVars, rmVars, mapVars, propVars, attrVars>>

\* layer.tiles_in_renderorder(&map)
TilesInRenderorder ==
    /\ renderorder.kind = "Ok"
    /\ tile_layer.kind = "Ok"
    /\ tile_pos = NotCalled
    /\ tile_pos' = TileIterator_new
    /\ UNCHANGED <<map_node, renderorder, layer_node, decoded, tile_layer,
                   tile_item, tile_items, gidVars, layerVars, rmVars, mapVars, propVars, attrVars>>

\* the for loop asks for the next tile, until it gets None or unwinds
TileNext ==
    /\ tile_pos # NotCalled
    /\ tile_item.kind \notin {"None", "Panic"}
    /\ LET r == TileIterator_next(renderorder.value, tile_layer.value, tile_pos)
       IN  /\ tile_pos' = r.pos
           /\ tile_item' = r.item
           /\ tile_items' = IF r.item.kind = "Some"
                            THEN Append(tile_items, r.item)
                            ELSE tile_items
    /\ UNCHANGED <<map_node, renderorder, layer_node, decoded, tile_layer,
                   gidVars, layerVars, rmVars, mapVars, propVars, attrVars>>

NextTiles ==
    \/ LoadTiles
    \/ TilesInRenderorder
    \/ TileNext

SpecTiles == InitData /\ [][NextTiles]_vars

-----------------------------------------------------------------------------
(* TileIterator: what the claims say of it *)

\* the layer has as many tiles as its size says
WellFormed(layer) == Len(layer.tiles) = layer.size.x * layer.size.y

\* C16 as stated: with render order right-down, iterating a layer of size
\* width x height (0 included) never fails, yields item k (from 0) with the
\* position (k % width, k / width) and the value tiles[k], and ends after
\* exactly width * height items.
C16_RowMajorExactlyOnce ==
    (/\ tile_pos # NotCalled
     /\ renderorder = Ok("RightDown")
     /\ WellFormed(tile_layer.value))
    => LET layer == tile_layer.value
       IN  /\ tile_item.kind # "Panic"
           /\ Len(tile_items) <= layer.size.x * layer.size.y
           /\ \A n \in 1 .. Len(tile_items) :
                 /\ tile_items[n].pos = ivec2((n - 1) % layer.size.x,
                                              (n - 1) \div layer.size.x)
                 /\ tile_items[n].tile = layer.tiles[n]
           /\ tile_item = None => Len(tile_items) = layer.size.x * layer.size.y

RenderorderOf(attr) ==
    CASE attr = Attr("right-up") -> "RightUp"
      [] attr = Attr("left-down") -> "LeftDown"
      [] attr = Attr("left-up") -> "LeftUp"

\* C17: a map whose render order is right-up, left-down or left-up parses,
\* and iterating one of its layers yields no tile: the first step ends in the
\* failure that says only right-down is implemented.
C17_OtherOrdersYieldNothing ==
    (/\ map_node # NotCalled
     /\ map_node.renderorder \in {Attr("right-up"), Attr("left-down"), Attr("left-up")})
    => /\ renderorder = Ok(RenderorderOf(map_node.renderorder))
       /\ tile_items = << >>
       /\ tile_item \in {NotCalled, OnlyRightDown}
       /\ tile_pos \in {NotCalled, TileIterator_new}

\* the first step over a 2 x 2 layer of a left-up map has failed
C17_Witness ==
    /\ renderorder = Ok("LeftUp")
    /\ tile_layer.kind = "Ok"
    /\ tile_layer.value.size = ivec2(2, 2)
    /\ WellFormed(tile_layer.value)
    /\ tile_item = OnlyRightDown

-----------------------------------------------------------------------------
(* Map::from_file, Map::from_xml_str, TileSet::from_xml, Layer::try_from_xml *)

UnsupportedFeature == [kind |-> "Err", error |-> "UnsupportedFeature"]

\* the positions of the separators of a path
Separators(path) == {i \in DOMAIN path : path[i] = "/"}

\* path.parent().unwrap_or(path), for a relative path that names a file: the
\* path without its last component, empty if it has only one
Parent(path) ==
    IF Separators(path) = {} THEN << >>
    ELSE SubSeq(path, 1, (CHOOSE i \in Separators(path) :
                             \A j \in Separators(path) : j <= i) - 1)

\* the image paths for which a loader other than LazyLoader fails
BrokenImages == { <<"x">> }

\* TileSet::from_xml.  rm is the ResourceManager; node.provided is what the
\* Provider hands back for node.source; image and attrs are those of the
\* element that carries the data, the root of the external document if there
\* is one.  The outcome: the ResourceManager and the value returned.
TileSet_from_xml(node, rm, loader) ==
    IF node.source # Absent /\ node.provided = "io_error"
    THEN \* loader.load_text(source)?
         [rm |-> rm, result |-> IOError]
    ELSE IF node.image = Absent
    THEN [rm |-> rm, result |-> UnsupportedFeature]
    ELSE IF node.image.source = Absent
    THEN [rm |-> rm, result |-> StructureError("image")]
    ELSE LET relative == node.image.source.text
             loads == loader = "LazyLoader" \/ relative \notin BrokenImages
             r == load_image(rm.base_path, rm.image_cache, rm.rc_count, relative, loads)
             after == [rm EXCEPT !.image_cache = r.image_cache,
                                 !.rc_count = r.rc_count,
                                 !.loader_log = @ \o r.loader_calls,
                                 !.request_log = Append(@, [path |-> r.path,
                                                            result |-> r.result])]
         IN  IF r.result.kind # "Ok"
             THEN [rm |-> after, result |-> IOError]
             ELSE IF ~node.attrs
             THEN \* attribute(node, "firstgid")? and the other required ones
                  [rm |-> after, result |-> StructureError("tileset")]
             ELSE [rm |-> after, result |-> Ok([image |-> r.result.value])]

\* .map(|n| TileSet::from_xml(&n, resource_manager)).collect::<Result<Vec<_>>>()
\* from node i on; done are the tilesets built so far
RECURSIVE CollectTileSets(_, _, _, _, _)
CollectTileSets(nodes, i, rm, loader, done) ==
    IF i > Len(nodes)
    THEN [rm |-> rm, result |-> Ok(done)]
    ELSE LET r == TileSet_from_xml(nodes[i], rm, loader)
         IN  IF r.result.kind # "Ok"
             THEN r
             ELSE CollectTileSets(nodes, i + 1, r.rm, loader, Append(done, r.result.value))

\* filter_map's None: an element that is no layer
Skipped == [kind |-> "Skipped"]

\* .collect::<Result<Vec<_>>>() over what filter_map let through: the first
\* result in document order that is not Ok, else the values in order
CollectResults(results) ==
    LET failed == {i \in DOMAIN results : results[i].kind \notin {"Ok", "Skipped"}}
        passed == SelectSeq(results, LAMBDA r : r.kind = "Ok")
    IN  IF failed # {}
        THEN results[CHOOSE i \in failed : \A j \in failed : i <= j]
        ELSE Ok([i \in DOMAIN passed |-> passed[i].value])

\* Layer::try_from_xml with TileLayer::from_xml, GroupLayer::from_xml and
\* ObjectLayer::from_xml
RECURSIVE Layer_try_from_xml(_)
Layer_try_from_xml(node) ==
    CASE node.tag = "layer" ->
            LET r == TileLayer_from_xml(node).result
            IN  IF r.kind # "Ok" THEN r
                ELSE Ok([kind |-> "Tile", size |-> r.value.size, tiles |-> r.value.tiles])
      [] node.tag = "group" ->
            LET content == CollectResults([i \in DOMAIN node.content |->
                                              Layer_try_from_xml(node.content[i])])
            IN  IF content.kind # "Ok" THEN content
                ELSE Ok([kind |-> "Group", content |-> content.value])
      [] node.tag = "objectgroup" ->
            IF node.objects THEN Ok([kind |-> "Object"]) ELSE StructureError("object")
      [] OTHER -> Skipped

\* children().filter_map(|c| Layer::try_from_xml(&c)).collect::<Result<Vec<_>>>()
CollectLayers(nodes) ==
    CollectResults([i \in DOMAIN nodes |-> Layer_try_from_xml(nodes[i])])

\* Map::from_xml_str
Map_from_xml_str(map, rm, loader) ==
    LET collected == CollectTileSets(map.tilesets, 1, rm, loader, << >>)
        content == CollectLayers(map.layers)
        return(value) == [rm |-> collected.rm, result |-> value]
    IN  IF collected.result.kind # "Ok" THEN collected
        ELSE IF ~map.attrs THEN return(StructureError("map"))
        ELSE IF content.kind # "Ok" THEN return(content)
        ELSE IF ~map.properties THEN return(StructureError("property"))
        ELSE return(Ok([tilesets |-> collected.result.value, layers |-> content.value]))

\* Map::from_file_with_loader: the base path becomes the directory of the file
Map_from_file_with_loader(path, map, rm, loader) ==
    Map_from_xml_str(map, [rm EXCEPT !.base_path = Parent(path)], loader)

MapPaths == { <<"m", "/", "f">>, <<"f">> }

ImageNode(source) == [source |-> source]

TileSetNode(source, provided, image, attrs) ==
    [source |-> source, provided |-> provided, image |-> image, attrs |-> attrs]

\* an inline and an external tileset that load, and tilesets that do not
TileSetNodes ==
    { TileSetNode(Absent, "none", ImageNode(Attr(<<"t">>)), TRUE),
      TileSetNode(Attr(<<"e">>), "ok", ImageNode(Attr(<<"t">>)), TRUE),
      TileSetNode(Attr(<<"e">>), "io_error", ImageNode(Attr(<<"t">>)), TRUE),
      TileSetNode(Absent, "none", ImageNode(Attr(<<"x">>)), TRUE),
      TileSetNode(Absent, "none", ImageNode(Absent), TRUE),
      TileSetNode(Absent, "none", Absent, TRUE),
      TileSetNode(Absent, "none", ImageNode(Attr(<<"t">>)), FALSE) }

DataOf(encoding, bytes) ==
    [encoding |-> encoding, compression |-> Absent,
     text |-> [base64 |-> TRUE, stream |-> TRUE, bytes |-> bytes]]

LayerElement(data) == [tag |-> "layer", width |-> Attr(1), height |-> Attr(1), data |-> data]

\* a tile layer that parses; tile layers with csv data, with a ragged payload,
\* with an unknown encoding and with no data; an object group with an object
\* that has no id; a group around it; an element that is no layer
LayerElements ==
    { LayerElement(DataOf(Attr("base64"), <<2, 0, 0, 128>>)),
      LayerElement(DataOf(Attr("csv"), <<2, 0, 0, 128>>)),
      LayerElement(DataOf(Attr("base64"), <<7>>)),
      LayerElement(DataOf(Attr("hex"), <<2, 0, 0, 128>>)),
      LayerElement(Absent),
      [tag |-> "objectgroup", objects |-> FALSE],
      [tag |-> "group", content |-> << [tag |-> "objectgroup", objects |-> TRUE],
                                       [tag |-> "objectgroup", objects |-> FALSE] >>],
      [tag |-> "imagelayer"] }

ListsOf(S, n) == UNION { [1 .. k -> S] : k \in 0 .. n }

MapLayerCounts == 0 .. 2

MapElements ==
    UNION { [tilesets : ListsOf(TileSetNodes, MaxTilesets), attrs : BOOLEAN,
             layers : [1 .. k -> LayerElements], properties : BOOLEAN]
            : k \in MapLayerCounts }

\* the ResourceManager as the variables hold it
Manager ==
    [base_path |-> base_path, image_cache |-> image_cache, rc_count |-> rc_count,
     loader_log |-> loader_log, request_log |-> request_log]

\* the map file at path is loaded with the given ImageLoader
LoadMap(loader) ==
    /\ document = NotCalled
    /\ \E path \in MapPaths, map \in MapElements :
          LET r == Map_from_file_with_loader(path, map, Manager, loader)
          IN  /\ document' = [path |-> path, map |-> map, loader |-> loader]
              /\ map_result' = r.result
              /\ base_path' = r.rm.base_path
              /\ image_cache' = r.rm.image_cache
              /\ rc_count' = r.rm.rc_count
              /\ loader_log' = r.rm.loader_log
              /\ request_log' = r.rm.request_log
    /\ UNCHANGED <<tmplVars, gidVars, layerVars, tileVars, propVars, attrVars>>

\* Map::from_file: the default ResourceManager, with LazyLoader
FromFile == LoadMap("LazyLoader")

\* Map::from_file_with_loader with a manager whose ImageLoader may fail
FromFileWithLoader == LoadMap("ImageLoader")

InitMap ==
    /\ MapIdle
    /\ TilesIdle
    /\ PropsIdle
    /\ AttrsIdle
    /\ GidIdle
    /\ LayersIdle

NextMap ==
    \/ FromFile
    \/ FromFileWithLoader

SpecMap == InitMap /\ [][NextMap]_vars

-----------------------------------------------------------------------------
(* Map loading: what the claims say of it *)

\* the Map that was returned, and the <map> element it was read from
LoadedMap == map_result.value

MapElement == document.map

\* C12 as stated: with the default manager, the handle stored for each
\* tileset of a map loaded by Map::from_file is the String written in the
\* source attribute of its image element, as written.
C12_HandleIsTheSourceAttribute ==
    (map_result.kind = "Ok" /\ document.loader = "LazyLoader")
    => \A i \in DOMAIN LoadedMap.tilesets :
          LoadedMap.tilesets[i].image.data = MapElement.tilesets[i].image.source.text

\* a tileset that cannot be loaded with the given loader
TileSetFails(node, loader) ==
    \/ node.source # Absent /\ node.provided # "ok"
    \/ node.image = Absent
    \/ node.image # Absent /\ node.image.source = Absent
    \/ /\ node.image # Absent
       /\ node.image.source # Absent
       /\ loader # "LazyLoader"
       /\ node.image.source.text \in BrokenImages
    \/ ~node.attrs

\* a layer element that cannot be parsed
RECURSIVE LayerFails(_)
LayerFails(node) ==
    CASE node.tag = "layer" -> TileLayer_from_xml(node).result.kind # "Ok"
      [] node.tag = "group" -> \E i \in DOMAIN node.content : LayerFails(node.content[i])
      [] node.tag = "objectgroup" -> ~node.objects
      [] OTHER -> FALSE

\* some part of the document fails to parse or to load
SomethingFails ==
    \/ \E i \in DOMAIN MapElement.tilesets :
          TileSetFails(MapElement.tilesets[i], document.loader)
    \/ ~MapElement.attrs
    \/ \E i \in DOMAIN MapElement.layers : LayerFails(MapElement.layers[i])
    \/ ~MapElement.properties

\* the elements of the document that are layers
LayerTags == {"layer", "group", "objectgroup"}

\* C19 as stated: if any part of the document fails, the call returns an
\* error value and no Map; a Map is returned only when nothing failed,
\* and then it holds every tileset and every layer of the document; no load
\* is tried twice.
C19_AllOrNothing ==
    document # NotCalled =>
        /\ SomethingFails => map_result.kind = "Err"
        /\ map_result.kind = "Ok" =>
              /\ ~SomethingFails
              /\ Len(LoadedMap.tilesets) = Len(MapElement.tilesets)
              /\ Len(LoadedMap.layers) =
                    Cardinality({i \in DOMAIN MapElement.layers :
                                    MapElement.layers[i].tag \in LayerTags})
        /\ Len(request_log) <= Len(MapElement.tilesets)
        /\ Len(loader_log) <= Len(request_log)

-----------------------------------------------------------------------------
(* property.rs: PropertyValue::from_xml and PropertyContainer *)

MaxUpdates == 2

\* str::parse::<i64> on the value texts of the model
ParseI64(text) ==
    CASE text = "7" -> Ok(7)
      [] text = "12" -> Ok(12)
      [] OTHER -> ParseError

\* parse_string_value: the value attribute if there is one, else the text
parse_string_value(tmx) ==
    IF tmx.value # Absent THEN tmx.value.text ELSE tmx.text

\* PropertyValue::from_xml, for the types string and int and for an unknown one
PropertyValue_from_xml(tmx) ==
    LET type == IF tmx.type = Absent THEN "string" ELSE tmx.type.text
    IN  CASE type = "string" -> Ok([String |-> parse_string_value(tmx)])
          [] type = "int" ->
                IF tmx.value = Absent
                THEN Ok([Int |-> 0])
                ELSE LET parsed == ParseI64(tmx.value.text)
                     IN  IF parsed.kind = "Ok" THEN Ok([Int |-> parsed.value]) ELSE parsed
          [] OTHER -> StructureError("property")

\* PropertyContainer::new
PropertyContainer_new == << >>

\* an insert that leaves an entry that is there alone
HashMap_insert_KeepFirst(map, key, value) ==
    [k \in DOMAIN map \cup {key} |-> IF k \in DOMAIN map THEN map[k] ELSE value]

\* HashMap::insert
HashMap_insert(map, key, value) ==
    [k \in DOMAIN map \cup {key} |-> IF k = key THEN value ELSE map[k]]

\* the loop of update_from_xml from child i on: the container it leaves and
\* what it returns
RECURSIVE UpdateLoop(_, _, _)
UpdateLoop(container, children, i) ==
    IF i > Len(children)
    THEN [properties |-> container, result |-> Ok(<< >>)]
    ELSE LET property == children[i]
         IN  IF property.tag # "property"
             THEN UpdateLoop(container, children, i + 1)
             ELSE IF property.name = Absent
             THEN [properties |-> container, result |-> StructureError("property")]
             ELSE LET value == PropertyValue_from_xml(property)
                      name == property.name.text
                  IN  IF value.kind # "Ok"
                      THEN [properties |-> container, result |-> value]
                      ELSE UpdateLoop(
                               HashMap_insert(container, name,
                                              [name |-> name, value |-> value.value]),
                               children, i + 1)

\* PropertyContainer::update_from_xml; tmx.properties is the first
\* <properties> child of the node, if it has one
update_from_xml(container, tmx) ==
    IF tmx.properties = Absent
    THEN [properties |-> container, result |-> Ok(<< >>)]
    ELSE UpdateLoop(container, tmx.properties.children, 1)

PropertyNode(name, type, value, text) ==
    [tag |-> "property", name |-> name, type |-> type, value |-> value, text |-> text]

\* the children of a <properties> element: properties of two names with a
\* string in the value attribute, a string in the text, an int, an int that
\* does not parse and an unknown type; a property without a name; another
\* element
PropertiesChildren ==
    { PropertyNode(Attr(n), Absent, Attr("x"), "") : n \in {"a", "b"} }
    \cup { PropertyNode(Attr(n), Attr("string"), Absent, "y") : n \in {"a", "b"} }
    \cup { PropertyNode(Attr(n), Attr("int"), Attr("7"), "") : n \in {"a", "b"} }
    \cup { PropertyNode(Attr("a"), Attr("int"), Attr("x"), ""),
           PropertyNode(Attr("b"), Attr("colour"), Attr("x"), ""),
           PropertyNode(Absent, Absent, Attr("x"), ""),
           [tag |-> "comment"] }

PropertiesLengths == 0 .. 2

\* the nodes a container is built or updated from
PropertyOwners ==
    { [properties |-> Absent] }
    \cup { [properties |-> [children |-> children]] :
              children \in UNION { [1 .. n -> PropertiesChildren] : n \in PropertiesLengths } }

LogEntry(tmx, before, r) == [node |-> tmx, before |-> before, result |-> r]

\* PropertyContainer::from_xml: a container that cannot be filled is dropped
PropertyContainer_from_xml ==
    /\ properties = NotCalled
    /\ update_log = << >>
    /\ \E tmx \in PropertyOwners :
          LET r == update_from_xml(PropertyContainer_new, tmx)
          IN  /\ properties' = IF r.result.kind = "Ok" THEN r.properties ELSE NotCalled
              /\ update_log' = << LogEntry(tmx, PropertyContainer_new, r.result) >>
    /\ UNCHANGED <<gidVars, layerVars, rmVars, tileVars, mapVars, attrVars>>

\* container.update_from_xml(node), while the caller has seen no error
UpdateFromXml ==
    /\ properties # NotCalled
    /\ Len(update_log) < MaxUpdates
    /\ update_log[Len(update_log)].result.kind = "Ok"
    /\ \E tmx \in PropertyOwners :
          LET r == update_from_xml(properties, tmx)
          IN  /\ properties' = r.properties
              /\ update_log' = Append(update_log, LogEntry(tmx, properties, r.result))
    /\ UNCHANGED <<gidVars, layerVars, rmVars, tileVars, mapVars, attrVars>>

InitProperties ==
    /\ PropsIdle
    /\ AttrsIdle
    /\ TilesIdle
    /\ MapIdle
    /\ GidIdle
    /\ LayersIdle

NextProperties ==
    \/ PropertyContainer_from_xml
    \/ UpdateFromXml

SpecProperties == InitProperties /\ [][NextProperties]_vars

-----------------------------------------------------------------------------
(* PropertyContainer: what the claims say of it *)

\* the property elements of a node, in document order
PropertyNodesOf(tmx) ==
    IF tmx.properties = Absent THEN << >>
    ELSE SelectSeq(tmx.properties.children, LAMBDA c : c.tag = "property")

\* the property elements of all updates so far, in the order they were read
RECURSIVE SeenUpTo(_)
SeenUpTo(n) ==
    IF n = 0 THEN << >> ELSE SeenUpTo(n - 1) \o PropertyNodesOf(update_log[n].node)

Seen == SeenUpTo(Len(update_log))

NamesIn(nodes) == {nodes[i].name.text : i \in DOMAIN nodes}

\* the last element of nodes that carries the name
LastWith(nodes, name) ==
    nodes[CHOOSE i \in DOMAIN nodes :
              /\ nodes[i].name.text = name
              /\ \A j \in DOMAIN nodes : nodes[j].name.text = name => j <= i]

AllUpdatesSucceeded ==
    /\ update_log # << >>
    /\ \A n \in DOMAIN update_log : update_log[n].result.kind = "Ok"

\* C20: after from_xml and any number of update_from_xml that all succeeded,
\* the container holds exactly one entry per name seen, with the value of the
\* last property element of that name (within one document too), and the
\* last update left every entry alone whose name it does not carry.
C20_LastNodeWins ==
    AllUpdatesSucceeded =>
        LET last == update_log[Len(update_log)]
        IN  /\ DOMAIN properties = NamesIn(Seen)
            /\ \A name \in DOMAIN properties :
                  /\ properties[name].name = name
                  /\ Ok(properties[name].value) =
                        PropertyValue_from_xml(LastWith(Seen, name))
            /\ \A name \in DOMAIN last.before \ NamesIn(PropertyNodesOf(last.node)) :
                  properties[name] = last.before[name]

\* a was set twice by the first document and once more by an update that
\* does not carry b: a has the update's value, b the one it had
C20_Witness ==
    /\ AllUpdatesSucceeded
    /\ Len(update_log) = 2
    /\ Len(PropertyNodesOf(update_log[1].node)) = 2
    /\ NamesIn(PropertyNodesOf(update_log[1].node)) = {"a", "b"}
    /\ NamesIn(PropertyNodesOf(update_log[2].node)) = {"a"}
    /\ properties["a"].value = [Int |-> 7]
    /\ properties["b"].value = [String |-> "y"]
    /\ update_log[2].before["a"].value = [String |-> "x"]

-----------------------------------------------------------------------------
(* Attributes: attribute_or, Color::from_str, GroupLayer and ObjectLayer *)

\* str::parse::<f32> on the texts of the model, the value in tenths
ParseF32(text) ==
    CASE text = "0" -> Ok(0)
      [] text = "0.5" -> Ok(5)
      [] text = "1" -> Ok(10)
      [] OTHER -> ParseError

\* str::parse::<bool>
ParseBool(text) ==
    CASE text = "true" -> Ok(TRUE)
      [] text = "false" -> Ok(FALSE)
      [] OTHER -> ParseError

\* text.parse::<T>() for the types T of the attributes below
FromStr(type, text) ==
    CASE type = "f32" -> ParseF32(text)
      [] type = "bool" -> ParseBool(text)

\* attribute_or::<T>(node, name, alternative), attr being node.attribute(name)
attribute_or(attr, type, alternative) ==
    IF attr = Absent THEN Ok(alternative) ELSE FromStr(type, attr.text)

\* the visible field of a group or object layer: read from "opacity"
VisibleOf(node) == attribute_or(node.opacity, "bool", TRUE)

\* the fields opacity and visible of GroupLayer::from_xml and of
\* ObjectLayer::from_xml, which read them alike; the other fields are left out
OpacityAndVisible(node) ==
    LET opacity == attribute_or(node.opacity, "f32", 10)
        visible == VisibleOf(node)
    IN  IF opacity.kind # "Ok" THEN opacity
        ELSE IF visible.kind # "Ok" THEN visible
        ELSE Ok([opacity |-> opacity.value, visible |-> visible.value])

GroupLayer_from_xml(node) == OpacityAndVisible(node)

ObjectLayer_from_xml(node) == OpacityAndVisible(node)

\* group and objectgroup elements by their opacity and visible attributes
AttributedLayers ==
    [tag : {"group", "objectgroup"},
     opacity : {Absent, Attr("0"), Attr("0.5"), Attr("1"), Attr("true"), Attr("opaque")},
     visible : {Absent, Attr("true"), Attr("false"), Attr("1"), Attr("0.5")}]

\* a group or an objectgroup element is parsed
ParseLayerAttributes ==
    /\ parse_input = NotCalled
    /\ \E node \in AttributedLayers :
          /\ parse_input' = [kind |-> "Layer", node |-> node]
          /\ parse_output' = IF node.tag = "group"
                             THEN GroupLayer_from_xml(node)
                             ELSE ObjectLayer_from_xml(node)
    /\ UNCHANGED <<gidVars, layerVars, rmVars, tileVars, mapVars, propVars>>

\* the digits of radix 16, lower and upper case
LowerHex == <<"0", "1", "2", "3", "4", "5", "6", "7", "8", "9",
              "a", "b", "c", "d", "e", "f">>

UpperHex == <<"0", "1", "2", "3", "4", "5", "6", "7", "8", "9",
              "A", "B", "C", "D", "E", "F">>

\* char::to_digit(16): the value of the digit, -1 for a character that is none
to_digit(c) ==
    IF \E i \in DOMAIN LowerHex : LowerHex[i] = c
    THEN (CHOOSE i \in DOMAIN LowerHex : LowerHex[i] = c) - 1
    ELSE IF \E i \in DOMAIN UpperHex : UpperHex[i] = c
    THEN (CHOOSE i \in DOMAIN UpperHex : UpperHex[i] = c) - 1
    ELSE -1

\* the word written by at most 8 digits, the last digit in the bits 0 .. 3
WordOfDigits(digits) ==
    [b \in BitPositions |->
        IF b \div 4 < Len(digits)
        THEN (to_digit(digits[Len(digits) - (b \div 4)]) \div Pow2(b % 4)) % 2
        ELSE 0]

\* u32::from_str_radix(s, 16) for a text of at most 8 characters: one leading
\* + is skipped, every other character has to be a digit
u32_from_str_radix(s) ==
    LET digits == IF s # << >> /\ s[1] = "+" THEN Tail(s) ELSE s
    IN  IF digits = << >> \/ \E i \in DOMAIN digits : to_digit(digits[i]) < 0
        THEN ParseError
        ELSE Ok(WordOfDigits(digits))

\* byte k of a word, byte 0 the least significant: (word >> 8k) & 0xFF
ByteOf(word, k) ==
    LET bit(j) == word[8 * k + j] * Pow2(j)
    IN  bit(0) + bit(1) + bit(2) + bit(3) + bit(4) + bit(5) + bit(6) + bit(7)

\* Color::from_argb
from_argb(a, r, g, b) ==
    [i \in BitPositions |->
        LET byte == CASE i \div 8 = 3 -> a
                      [] i \div 8 = 2 -> r
                      [] i \div 8 = 1 -> g
                      [] i \div 8 = 0 -> b
        IN  (byte \div Pow2(i % 8)) % 2]

alpha(color) == ByteOf(color, 3)

red(color) == ByteOf(color, 2)

green(color) == ByteOf(color, 1)

blue(color) == ByteOf(color, 0)

\* Color::from_str
Color_from_str(text) ==
    IF text = << >> \/ text[1] # "#"
    THEN \* strip_prefix('#').ok_or_else(make_error)?
         ParseError
    ELSE LET s == Tail(text)
             word == u32_from_str_radix(s)
         IN  IF Len(s) \notin {6, 8} THEN ParseError
             ELSE IF word.kind # "Ok" THEN word
             ELSE IF Len(s) = 8
             THEN Ok(from_argb(ByteOf(word.value, 3), ByteOf(word.value, 2),
                               ByteOf(word.value, 1), ByteOf(word.value, 0)))
             ELSE Ok(from_argb(255, ByteOf(word.value, 2),
                               ByteOf(word.value, 1), ByteOf(word.value, 0)))

HexPairs == { <<"0", "0">>, <<"F", "F">>, <<"a", "9">> }

RECURSIVE PairsOf(_)
PairsOf(n) ==
    IF n = 0 THEN { << >> }
    ELSE { body \o pair : body \in PairsOf(n - 1), pair \in HexPairs }

\* 4, 6, 8 and 10 hex digits
HexTexts == UNION { PairsOf(n) : n \in 2 .. 5 }

\* hex digits with one character replaced by one that is no digit
SpoiledTexts ==
    { [body EXCEPT ![at] = c] : body \in HexTexts, at \in {1, 4},
                                c \in {"Q", "+", "-", "g", " "} }

\* the texts handed to Color::from_str, with and without the #
ColorTexts ==
    LET bodies == HexTexts \cup SpoiledTexts
    IN  bodies \cup { <<"#">> \o body : body \in bodies } \cup { << >>, <<"#">> }

\* text.parse::<Color>()
ParseColor ==
    /\ parse_input = NotCalled
    /\ \E text \in ColorTexts :
          /\ parse_input' = [kind |-> "Color", text |-> text]
          /\ parse_output' = Color_from_str(text)
    /\ UNCHANGED <<gidVars, layerVars, rmVars, tileVars, mapVars, propVars>>

InitAttributes ==
    /\ AttrsIdle
    /\ PropsIdle
    /\ TilesIdle
    /\ MapIdle
    /\ GidIdle
    /\ LayersIdle

NextAttributes ==
    \/ ParseLayerAttributes
    \/ ParseColor

SpecAttributes == InitAttributes /\ [][NextAttributes]_vars

-----------------------------------------------------------------------------
(* Attributes: what the claims say of them *)

\* C21 as stated: a group or object layer whose opacity and visible
\* attributes are each absent or well-formed parses, with visible read from
\* the attribute visible (true if absent) and opacity from the attribute
\* opacity (1 if absent), each independently of the other.
C21_VisibleReadFromVisible ==
    parse_input.kind = "Layer" =>
        LET node == parse_input.node
            opacity == attribute_or(node.opacity, "f32", 10)
            visible == attribute_or(node.visible, "bool", TRUE)
        IN  (opacity.kind = "Ok" /\ visible.kind = "Ok") =>
                parse_output = Ok([opacity |-> opacity.value, visible |-> visible.value])

IsHexDigit(c) == c \in {LowerHex[i] : i \in DOMAIN LowerHex} \cup
                       {UpperHex[i] : i \in DOMAIN UpperHex}

\* the value of the i-th pair of hex digits of s
PairValue(s, i) == 16 * to_digit(s[2 * i - 1]) + to_digit(s[2 * i])

\* # followed by exactly 6 or exactly 8 hex digits
IsColorText(text) ==
    /\ text # << >>
    /\ text[1] = "#"
    /\ Len(text) \in {7, 9}
    /\ \A i \in 2 .. Len(text) : IsHexDigit(text[i])

\* C23 as stated: a text of # and 6 or 8 hex digits parses to the channels
\* its hex pairs give (alpha 255 for 6 digits); every other text fails.
C23_ColorParsing ==
    parse_input.kind = "Color" =>
        LET text == parse_input.text
            s == Tail(text)
        IN  IF IsColorText(text)
            THEN /\ parse_output.kind = "Ok"
                 /\ alpha(parse_output.value) =
                        IF Len(s) = 8 THEN PairValue(s, 1) ELSE 255
                 /\ red(parse_output.value) = PairValue(s, Len(s) \div 2 - 2)
                 /\ green(parse_output.value) = PairValue(s, Len(s) \div 2 - 1)
                 /\ blue(parse_output.value) = PairValue(s, Len(s) \div 2)
            ELSE parse_output.kind = "Err"


-----------------------------------------------------------------------------
(* Tilesets: the referencing element and the external document *)

\* the decimal texts of the numbers 0 .. 20
NumberTexts == <<"0", "1", "2", "3", "4", "5", "6", "7", "8", "9", "10", "11",
                 "12", "13", "14", "15", "16", "17", "18", "19", "20">>

\* str::parse for an unsigned number
ParseNumber(text) ==
    IF \E i \in DOMAIN NumberTexts : NumberTexts[i] = text
    THEN Ok((CHOOSE i \in DOMAIN NumberTexts : NumberTexts[i] = text) - 1)
    ELSE ParseError

\* str::parse::<String>
ParseString(text) == Ok(text)

\* text.parse::<T>() for the types T of the attributes of a tileset
FromStrOf(type, text) ==
    CASE type = "usize" -> ParseNumber(text)
      [] type = "i32" -> ParseNumber(text)
      [] type = "GID" -> ParseNumber(text)
      [] type = "String" -> ParseString(text)

\* attribute::<T>(node, name), attr being node.attribute(name)
attribute(tag, attr, type) ==
    IF attr = Absent THEN StructureError(tag) ELSE FromStrOf(type, attr.text)

\* attribute_or_default::<usize>(node, name)
attribute_or_default(attr, type) ==
    IF attr = Absent THEN Ok(0) ELSE FromStrOf(type, attr.text)

\* the first of the results that is not Ok, in the order given; Ok if all are
FirstError(results) ==
    LET failed == {i \in DOMAIN results : results[i].kind # "Ok"}
    IN  IF failed = {} THEN Ok(<< >>)
        ELSE results[CHOOSE i \in failed : \A j \in failed : i <= j]

\* a TileSet whose firstgid, too, is read from data_node
TileSetOf_AllFromData(node, data_node, image) ==
    LET firstgid == attribute("tileset", data_node.firstgid, "GID")
        name == attribute("tileset", data_node.name, "String")
        tilewidth == attribute("tileset", data_node.tilewidth, "i32")
        tileheight == attribute("tileset", data_node.tileheight, "i32")
        spacing == attribute_or_default(data_node.spacing, "usize")
        margin == attribute_or_default(data_node.margin, "usize")
        tilecount == attribute("tileset", data_node.tilecount, "usize")
        columns == attribute("tileset", data_node.columns, "usize")
        props == update_from_xml(PropertyContainer_new, data_node).result
        failed == FirstError(<<firstgid, name, tilewidth, tileheight, spacing,
                               margin, tilecount, columns, props>>)
    IN  IF failed.kind # "Ok" THEN failed
        ELSE Ok([firstgid |-> firstgid.value,
                 name |-> name.value,
                 tile_size |-> ivec2(tilewidth.value, tileheight.value),
                 spacing |-> spacing.value,
                 margin |-> margin.value,
                 tilecount |-> tilecount.value,
                 columns |-> columns.value,
                 image |-> image,
                 properties |-> update_from_xml(PropertyContainer_new, data_node).properties])

\* Ok(Self{ ... }) of TileSet::from_xml: firstgid from node, everything else
\* from data_node; image is the handle load_image gave
TileSetOf(node, data_node, image) ==
    LET firstgid == attribute("tileset", node.firstgid, "GID")
        name == attribute("tileset", data_node.name, "String")
        tilewidth == attribute("tileset", data_node.tilewidth, "i32")
        tileheight == attribute("tileset", data_node.tileheight, "i32")
        spacing == attribute_or_default(data_node.spacing, "usize")
        margin == attribute_or_default(data_node.margin, "usize")
        tilecount == attribute("tileset", data_node.tilecount, "usize")
        columns == attribute("tileset", data_node.columns, "usize")
        props == update_from_xml(PropertyContainer_new, data_node).result
        failed == FirstError(<<firstgid, name, tilewidth, tileheight, spacing,
                               margin, tilecount, columns, props>>)
    IN  IF failed.kind # "Ok" THEN failed
        ELSE Ok([firstgid |-> firstgid.value,
                 name |-> name.value,
                 tile_size |-> ivec2(tilewidth.value, tileheight.value),
                 spacing |-> spacing.value,
                 margin |-> margin.value,
                 tilecount |-> tilecount.value,
                 columns |-> columns.value,
                 image |-> image,
                 properties |-> update_from_xml(PropertyContainer_new, data_node).properties])

\* the image of data_node as load_image sees it with a loader that hands back
\* the path: the source attribute of the first image child
ImageOf(data_node) ==
    IF data_node.image = Absent THEN UnsupportedFeature
    ELSE IF data_node.image.source = Absent THEN StructureError("image")
    ELSE Ok(data_node.image.source.text)

\* TileSet::from_xml for an element node whose source, if it has one, names
\* the text extern: one that cannot be read, one that is no XML, or a
\* document with a root element
TileSet_from_source(node, extern) ==
    IF node.source # Absent /\ extern.kind = "io_error" THEN IOError
    ELSE IF node.source # Absent /\ extern.kind = "not_xml" THEN ParseError
    ELSE LET data_node == IF node.source # Absent THEN extern.root ELSE node
             image == ImageOf(data_node)
         IN  IF image.kind # "Ok" THEN image
             ELSE TileSetOf(node, data_node, image.value)

\* what sets the attributes of the referencing element apart from those of
\* the root of the external document
Origins == {0, 10}

TileSetAttributes == <<"firstgid", "name", "tilewidth", "tileheight", "spacing",
                       "margin", "tilecount", "columns", "image", "properties">>

\* attribute number k of an element of the given origin, unless it is the
\* one spoiled: left out, or with a text that does not parse
AttributeOf(origin, k, spoiled, how) ==
    IF TileSetAttributes[k] = spoiled
    THEN IF how = "absent" THEN Absent ELSE Attr("x")
    ELSE Attr(NumberTexts[origin + k + 1])

\* a <tileset> element
TileSetElement(source, origin, spoiled, how) ==
    [source |-> source,
     firstgid |-> AttributeOf(origin, 1, spoiled, how),
     name |-> AttributeOf(origin, 2, spoiled, "absent"),
     tilewidth |-> AttributeOf(origin, 3, spoiled, how),
     tileheight |-> AttributeOf(origin, 4, spoiled, how),
     spacing |-> AttributeOf(origin, 5, spoiled, how),
     margin |-> AttributeOf(origin, 6, spoiled, how),
     tilecount |-> AttributeOf(origin, 7, spoiled, how),
     columns |-> AttributeOf(origin, 8, spoiled, how),
     image |-> IF spoiled = "image" /\ how = "absent" THEN Absent
               ELSE [source |-> AttributeOf(origin, 9, spoiled, "absent")],
     properties |-> IF spoiled = "properties" /\ how = "absent" THEN Absent
                    ELSE IF spoiled = "properties"
                    THEN [children |-> << PropertyNode(Attr("a"), Attr("int"), Attr("x"), "") >>]
                    ELSE [children |-> << PropertyNode(Attr("a"), Absent,
                                                       Attr(NumberTexts[origin + 11]), "") >>]]

Spoilings == {TileSetAttributes[k] : k \in DOMAIN TileSetAttributes} \cup {"none"}

\* the <tileset> elements of a map: with a source or without, and whole,
\* lacking one attribute or child, or with one that does not parse
ReferencingElements ==
    { TileSetElement(source, CHOOSE o \in Origins : o = 0, spoiled, how) :
        source \in {Absent, Attr("e")}, spoiled \in Spoilings,
        how \in {"absent", "malformed"} }

\* what the Provider has for the source
ExternalTexts ==
    { [kind |-> "document",
       root |-> TileSetElement(Absent, CHOOSE o \in Origins : o # 0, spoiled, how)] :
        spoiled \in Spoilings, how \in {"absent", "malformed"} }
    \cup { [kind |-> "io_error"], [kind |-> "not_xml"] }

\* a <tileset> element is parsed
ParseTileSet ==
    /\ parse_input = NotCalled
    /\ \E node \in ReferencingElements, extern \in ExternalTexts :
          /\ parse_input' = [kind |-> "TileSet", node |-> node, extern |-> extern]
          /\ parse_output' = TileSet_from_source(node, extern)
    /\ UNCHANGED <<gidVars, layerVars, rmVars, tileVars, mapVars, propVars>>

NextTileSets == ParseTileSet

SpecTileSets == InitAttributes /\ [][NextTileSets]_vars

\* a tileset with a source was parsed
ParsedExternal ==
    /\ parse_input.kind = "TileSet"
    /\ parse_input.node.source # Absent

C22_WitnessNoFirstGid ==
    /\ ParsedExternal
    /\ parse_input.node.firstgid = Absent
    /\ parse_input.extern.kind = "document"
    /\ parse_input.extern.root = TileSetElement(Absent, 10, "none", "absent")
    /\ parse_output = StructureError("tileset")


-----------------------------------------------------------------------------
(* ResourceManager: images and templates on one manager *)

\* one manager serves image and template requests under changing base paths,
\* as it does when it is handed to one map load after another
NextManager ==
    \/ \E relative \in RelativePaths : LoadImage(relative)
    \/ \E relative \in RelativePaths : LoadObjectTemplate(relative)
    \/ \E new_base \in BasePaths : SetBasePath(new_base)

SpecManager == InitResources /\ [][NextManager]_vars

\* base_path + "/" + relative path of a logged image request
KeyOf(request) == request.base_path \o <<"/">> \o request.relpath

\* the image requests that no earlier successful request with the same
\* resolved path came before
FreshRequests ==
    {i \in DOMAIN request_log :
        \A j \in 1 .. i - 1 :
            ~(KeyOf(request_log[j]) = KeyOf(request_log[i])
              /\ request_log[j].result.kind = "Ok")}

ServedImages == {i \in DOMAIN request_log : request_log[i].result.kind = "Ok"}

ServedTemplates == {i \in DOMAIN template_log : template_log[i].result.kind = "Ok"}

\* C25: the image cache is keyed by base_path + "/" + relative path and lives
\* as long as the manager: after any interleaving of set_base_path, load_image
\* and load_object_template a request invokes the Image Loader iff no earlier
\* successful request had the same resolved path; one relative path under two
\* base paths gives two entries; the image cache holds what the image
\* requests put there and the template cache what the template requests did.
C25_KeyedByResolvedPath ==
    /\ \A i \in DOMAIN request_log : request_log[i].path = KeyOf(request_log[i])
    /\ Len(loader_log) = Cardinality(FreshRequests)
    /\ \A i \in DOMAIN request_log :
          Cardinality({k \in DOMAIN loader_log : loader_log[k].path = KeyOf(request_log[i])})
            = Cardinality({j \in FreshRequests : KeyOf(request_log[j]) = KeyOf(request_log[i])})
    /\ \A i, j \in ServedImages :
          (/\ request_log[i].relpath = request_log[j].relpath
           /\ request_log[i].base_path # request_log[j].base_path) =>
              /\ request_log[i].result.value.rc # request_log[j].result.value.rc
              /\ image_cache[KeyOf(request_log[i])] # image_cache[KeyOf(request_log[j])]
    /\ DOMAIN image_cache = {KeyOf(request_log[i]) : i \in ServedImages}
    /\ \A i \in ServedImages : image_cache[KeyOf(request_log[i])] = request_log[i].result.value
    /\ DOMAIN template_cache = {template_log[i].path : i \in ServedTemplates}
    /\ \A i \in ServedTemplates : template_cache[template_log[i].path] = template_log[i].result.value

\* one relative path was loaded under two base paths, and a template was
\* loaded under the resolved path of one of the two images
C25_Witness ==
    /\ Len(request_log) = 2
    /\ ServedImages = {1, 2}
    /\ request_log[1].relpath = request_log[2].relpath
    /\ request_log[1].base_path # request_log[2].base_path
    /\ ServedTemplates = {1}
    /\ template_log[1].path = request_log[1].path
    /\ DOMAIN image_cache # DOMAIN template_cache


-----------------------------------------------------------------------------
(* tile_image: arithmetic faults *)

\* C26 as stated: for every GID and every list of tilesets the parser lets
\* through, tile_image does not fault: the tileset it selects has a firstgid
\* whose id does not exceed the masked id of the GID, so that the subtraction
\* does not underflow, and its columns are not 0.
C26_NoArithmeticFault ==
    Called =>
        LET at == RfindTileset(tilesets, query.raw)
        IN  /\ result # Panic
            /\ at # 0 =>
                  /\ FirstGidValue(tilesets[at]) <= IdValue(to_id(query.raw))
                  /\ tilesets[at].columns # 0


\* an image request was made in this step
ImageRequested == Len(request_log') = Len(request_log) + 1

\* a template request was made in this step
TemplateRequested == Len(template_log') = Len(template_log) + 1

\* the request of this step failed: both caches are as they were; and if no
\* request for its path was served before, the loader was asked for the path
FailedImageLeavesNoTrace ==
    ImageRequested =>
        LET request == request_log'[Len(request_log')]
        IN  /\ request.result.kind = "Err" =>
                  /\ image_cache' = image_cache
                  /\ template_cache' = template_cache
                  /\ request.path \notin DOMAIN image_cache'
            /\ (\A j \in DOMAIN request_log :
                    request_log[j].path = request.path => request_log[j].result.kind = "Err")
                 => /\ Len(loader_log') = Len(loader_log) + 1
                    /\ loader_log'[Len(loader_log')].path = request.path

\* the same of a template request and the Provider
FailedTemplateLeavesNoTrace ==
    TemplateRequested =>
        LET request == template_log'[Len(template_log')]
        IN  /\ request.result.kind = "Err" =>
                  /\ image_cache' = image_cache
                  /\ template_cache' = template_cache
                  /\ request.path \notin DOMAIN template_cache'
            /\ (\A j \in DOMAIN template_log :
                    template_log[j].path = request.path => template_log[j].result.kind = "Err")
                 => /\ Len(provider_log') = Len(provider_log) + 1
                    /\ provider_log'[Len(provider_log')].path = request.path

\* C27: a request whose loader, provider or parse fails returns the error
\* and leaves both caches as they were, and every request for a path whose
\* earlier requests all failed asks the loader or the provider again.
C27_FailureIsNotCached ==
    [][FailedImageLeavesNoTrace /\ FailedTemplateLeavesNoTrace]_vars

\* an image failed to load twice under one path, with two loader calls, and a
\* template failed once: both caches are still empty
C27_Witness ==
    /\ Len(request_log) = 2
    /\ request_log[1].result = Err
    /\ request_log[2].result = Err
    /\ request_log[1].path = request_log[2].path
    /\ Len(loader_log) = 2
    /\ Len(template_log) = 1
    /\ template_log[1].result = Err
    /\ Len(provider_log) = 1
    /\ image_cache = EmptyCache
    /\ template_cache = EmptyCache


-----------------------------------------------------------------------------
(* Templates in the hands of their callers *)

\* the number of Objects that callers change
MaxMerges == 1

\* the Objects handed out that their callers have changed
Merged == {i \in DOMAIN handed : handed[i].object.name = "instance"}

\* the elements whose properties a caller merges over a template
InstanceNodes ==
    { [properties |-> [children |-> << PropertyNode(Attr("a"), Absent, Attr("x"), "") >>]],
      [properties |-> [children |-> << PropertyNode(Attr("b"), Attr("int"), Attr("7"), ""),
                                       PropertyNode(Attr("a"), Absent, Attr("y"), "") >>]] }

\* the caller that holds the i-th Object handed out renames it and merges the
\* properties of an instance over it; what it writes lands in the Object it
\* holds, which is the one in the slot if that is what it was handed
CallerMerges(i) ==
    /\ i \in DOMAIN handed
    /\ i \notin Merged
    /\ Cardinality(Merged) < MaxMerges
    /\ \E instance \in InstanceNodes :
          LET object == handed[i].object
              merged == [object EXCEPT
                            !.name = "instance",
                            !.properties = update_from_xml(@, instance).properties]
          IN  /\ handed' = [handed EXCEPT ![i].object = merged]
              /\ template_cache' =
                    IF handed[i].slot = NoSlot THEN template_cache
                    ELSE [template_cache EXCEPT ![handed[i].slot.value] = merged]
    /\ UNCHANGED <<base_path, image_cache, rc_count, loader_log, request_log,
                   provider_log, template_log, gidVars, layerVars, loadVars>>

\* template requests under one base path, and callers at work in between
NextCallers ==
    \/ \E relative \in RelativePaths : LoadObjectTemplate(relative)
    \/ \E i \in 1 .. MaxRequests : CallerMerges(i)

SpecCallers == InitResources /\ [][NextCallers]_vars

=============================================================================
